---- MODULE Spec2Model ----
(***************************************************************************)
(* A model of the mSense evaluation core: the in-memory cache, the         *)
(* discipline evaluate/differentiate contract, the coupled-system solvers  *)
(* and the jacobian assembler.                                             *)
(*                                                                         *)
(* Numbers are exact rationals <<n, d>> (d > 0, lowest terms); a numpy     *)
(* array is a sequence of rationals; a value dictionary is a function from *)
(* variable names to arrays; None is the empty sequence and a present      *)
(* optional value x is <<x>>.  Floating-point rounding is not modelled.    *)
(***************************************************************************)
EXTENDS Integers, Sequences, FiniteSets, TLC

VARIABLES cache, discs, solver, asm, last, prev, calls

vars == <<cache, discs, solver, asm, last, prev, calls>>

(***************************************************************************)
(* Bounds of the model.                                                    *)
(***************************************************************************)
MaxCalls == 3

(***************************************************************************)
(* Exact rational arithmetic (numpy float arithmetic without rounding).    *)
(* A rational is <<numerator, denominator>> in lowest terms with a         *)
(* positive denominator; <<0, 0>> is nan, which every operation propagates *)
(* and every comparison answers with False.                                *)
(***************************************************************************)
Abs(x) == IF x < 0 THEN -x ELSE x

RECURSIVE GCD(_, _)
GCD(a, b) == IF b = 0 THEN a ELSE GCD(b, a % b)

Q(n, d) ==
    LET s == IF d < 0 THEN -1 ELSE 1
        g == GCD(Abs(n), Abs(d))
    IN  <<(s * n) \div g, (s * d) \div g>>

I(n) == <<n, 1>>

\* Sums and products reduce by common factors before multiplying.
RAdd(a, b) ==
    LET g == GCD(a[2], b[2])
    IN  IF a[2] = 0 \/ b[2] = 0 THEN <<0, 0>>
        ELSE Q(a[1] * (b[2] \div g) + b[1] * (a[2] \div g), (a[2] \div g) * b[2])
RNeg(a) == <<-a[1], a[2]>>
RSub(a, b) == RAdd(a, RNeg(b))
RMul(a, b) ==
    LET g1 == GCD(Abs(a[1]), b[2])
        g2 == GCD(Abs(b[1]), a[2])
    IN  IF a[2] = 0 \/ b[2] = 0 THEN <<0, 0>>
        ELSE IF a[1] = 0 \/ b[1] = 0 THEN <<0, 1>>
        ELSE <<(a[1] \div g1) * (b[1] \div g2), (a[2] \div g2) * (b[2] \div g1)>>
RDiv(a, b) == RMul(a, IF b[1] < 0 THEN <<-b[2], -b[1]>> ELSE <<b[2], b[1]>>)
RAbs(a) == <<Abs(a[1]), a[2]>>
\* comparisons, the common factor of the denominators divided out first
RLess(a, b) ==
    /\ a[2] # 0 /\ b[2] # 0
    /\ a[1] * (b[2] \div GCD(a[2], b[2])) < b[1] * (a[2] \div GCD(a[2], b[2]))
RLeq(a, b) ==
    /\ a[2] # 0 /\ b[2] # 0
    /\ a[1] * (b[2] \div GCD(a[2], b[2])) <= b[1] * (a[2] \div GCD(a[2], b[2]))

\* a < b for a >= 0 and b > 0, written so that the denominator of b (which
\* is 10^9 for the default cache tolerance) is never multiplied.
RLessPos(a, b) == a[2] # 0 /\ a[1] <= (b[1] * a[2] - 1) \div b[2]

(***************************************************************************)
(* Complex numbers (the complex-step method): an element with an imaginary *)
(* part is <<n, d, p, q>>, standing for n/d + (p/q) i; an element <<n, d>>  *)
(* is real in either dtype.                                                *)
(***************************************************************************)
Im(a) == IF Len(a) = 2 THEN I(0) ELSE <<a[3], a[4]>>

CAdd(a, b) ==
    IF Len(a) = 2 /\ Len(b) = 2 THEN RAdd(a, b)
    ELSE RAdd(<<a[1], a[2]>>, <<b[1], b[2]>>) \o RAdd(Im(a), Im(b))

CMul(a, b) ==
    IF Len(a) = 2 /\ Len(b) = 2 THEN RMul(a, b)
    ELSE RSub(RMul(<<a[1], a[2]>>, <<b[1], b[2]>>), RMul(Im(a), Im(b)))
            \o RAdd(RMul(<<a[1], a[2]>>, Im(b)), RMul(Im(a), <<b[1], b[2]>>))

(***************************************************************************)
(* Arrays: elementwise arithmetic with numpy broadcasting between a        *)
(* length-1 array and a longer one, and the Euclidean norm.                *)
(***************************************************************************)
VLen(a, b) == IF Len(a) >= Len(b) THEN Len(a) ELSE Len(b)
VAt(a, i) == IF Len(a) = 1 THEN a[1] ELSE a[i]
VSub(a, b) == [i \in 1..VLen(a, b) |-> CAdd(VAt(a, i), CMul(I(-1), VAt(b, i)))]
VAdd(a, b) == [i \in 1..VLen(a, b) |-> CAdd(VAt(a, i), VAt(b, i))]
VMul(a, b) == [i \in 1..VLen(a, b) |-> CMul(VAt(a, i), VAt(b, i))]
VScale(k, a) == [i \in 1..Len(a) |-> CMul(k, a[i])]

\* The sum of |a[i]|^2.
RECURSIVE SumSq(_, _)
SumSq(a, i) ==
    IF i > Len(a) THEN I(0)
    ELSE RAdd(IF Len(a[i]) = 2 THEN RMul(a[i], a[i])
              ELSE RAdd(RMul(<<a[i][1], a[i][2]>>, <<a[i][1], a[i][2]>>), RMul(Im(a[i]), Im(a[i]))),
              SumSq(a, i + 1))

\* The comparison with the boundary admitted: err > tol instead of err >= tol.
ErrGtTol(a, b, tol) ==
    IF Len(a) = 1 /\ Len(b) = 1
    THEN RLess(tol, RDiv(RAbs(a[1]), RAdd(I(1), RAbs(b[1]))))
    ELSE LET t2 == RMul(tol, tol)
             qq == RMul(t2, SumSq(b, 1))
             L == RSub(RSub(SumSq(a, 1), qq), t2)
         IN  ~(RLeq(L, I(0)) \/ RLeq(RMul(L, L), RMul(I(4), RMul(t2, qq))))

\* norm(a) / (1 + norm(b)) >= tol, for tol > 0.  With A = |a|^2, B = |b|^2:
\* sqrt(A) < tol * (1 + sqrt(B))  iff  L < 0 or L^2 < 4 tol^2 (tol^2 B),
\* where L = A - tol^2 B - tol^2.  Arrays of length 1 have norm |a[1]|.
\* A nan on either side makes the comparison False.
ErrGeqTol(a, b, tol) ==
    IF Len(a) = 1 /\ Len(b) = 1 /\ Len(a[1]) = 2 /\ Len(b[1]) = 2
    THEN /\ a[1][2] # 0 /\ b[1][2] # 0
         /\ ~RLessPos(RDiv(RAbs(a[1]), RAdd(I(1), RAbs(b[1]))), tol)
    ELSE LET t2 == RMul(tol, tol)
             qq == RMul(t2, SumSq(b, 1))
             L == RSub(RSub(SumSq(a, 1), qq), t2)
         IN  /\ L[2] # 0
             /\ ~(RLess(L, I(0)) \/ RLess(RMul(L, L), RMul(I(4), RMul(t2, qq))))

(***************************************************************************)
(* Variables and value dictionaries.                                       *)
(***************************************************************************)
(* Variable is a frozen dataclass: the generated __eq__ compares every      *)
(* field (name, size, lb, ub, keep_feasible), which is equality of the     *)
(* records below; only name enters the generated __hash__.  A bound is     *)
(* <<b>> when finite and <<>> when infinite (-inf for lb, inf for ub, the  *)
(* defaults).                                                              *)
Variable(name, size, lb, ub, keep_feasible) ==
    [name |-> name, size |-> size, lb |-> lb, ub |-> ub, keep_feasible |-> keep_feasible]

Names(vs) == {vs[i].name : i \in 1..Len(vs)}

\* The total size of a list of variables.
RECURSIVE get_variable_list_size(_)
get_variable_list_size(vs) ==
    IF Len(vs) = 0 THEN 0 ELSE vs[1].size + get_variable_list_size(Tail(vs))

\* The variable holding position i of the concatenated list, and the
\* position inside it: <<variable, offset>>
RECURSIVE VarAt(_, _)
VarAt(vs, i) == IF i <= vs[1].size THEN <<vs[1], i>> ELSE VarAt(Tail(vs), i - vs[1].size)

EmptyDict == [n \in {} |-> <<>>]

None == <<>>
Some(x) == <<x>>

\* dict.update
Update(a, b) == [n \in DOMAIN a \cup DOMAIN b |-> IF n \in DOMAIN b THEN b[n] ELSE a[n]]

copy_dict_1d(vs, values_dict) ==
    [n \in Names(vs) \cap DOMAIN values_dict |-> values_dict[n]]

copy_dict_2d(input_vars, output_vars, values_dict) ==
    [o \in Names(output_vars) \cap DOMAIN values_dict |->
        [i \in Names(input_vars) \cap DOMAIN values_dict[o] |-> values_dict[o][i]]]

\* "ok", or the exception verify_dict_1d raises at the first bad variable.
RECURSIVE verify_dict_1d_from(_, _, _)
verify_dict_1d_from(vs, values_dict, k) ==
    IF k > Len(vs) THEN "ok"
    ELSE IF vs[k].name \notin DOMAIN values_dict THEN "TypeError"
    ELSE IF vs[k].size # Len(values_dict[vs[k].name]) THEN "ValueError"
    ELSE verify_dict_1d_from(vs, values_dict, k + 1)

verify_dict_1d(vs, values_dict) == verify_dict_1d_from(vs, values_dict, 1)

\* "match", "nomatch", or "KeyError" when a variable is absent from either
\* dictionary (it is looked up only if every earlier variable matched).
RECURSIVE check_values_match_from(_, _, _, _, _)
check_values_match_from(vs, original, test, tol, k) ==
    IF k > Len(vs) THEN "match"
    ELSE IF vs[k].name \notin DOMAIN original \/ vs[k].name \notin DOMAIN test
    THEN "KeyError"
    ELSE IF ErrGeqTol(VSub(original[vs[k].name], test[vs[k].name]), test[vs[k].name], tol)
    THEN "nomatch"
    ELSE check_values_match_from(vs, original, test, tol, k + 1)

check_values_match(vs, original, test, tol) ==
    IF DOMAIN original = {} \/ DOMAIN test = {} THEN "nomatch"
    ELSE check_values_match_from(vs, original, test, tol, 1)

(***************************************************************************)
(* MemoryCache.  A cache is [input_vars, output_vars, policy, tol,         *)
(* entries]; entries is the list _entries, the last item being the latest. *)
(***************************************************************************)
MemoryCache(input_vars, output_vars, policy, tol) ==
    [input_vars |-> input_vars, output_vars |-> output_vars,
     policy |-> policy, tol |-> tol, entries |-> <<>>]

\* [idx |-> index of the entry found (0: none), raised |-> exception or "none"]
RECURSIVE check_if_entry_exists_from(_, _, _)
check_if_entry_exists_from(c, input_values, k) ==
    IF k = 0 THEN [idx |-> 0, raised |-> "none"]
    ELSE LET m == check_values_match(c.input_vars, c.entries[k].inputs, input_values, c.tol)
         IN  IF m = "match" THEN [idx |-> k, raised |-> "none"]
             ELSE IF m = "KeyError" THEN [idx |-> 0, raised |-> "KeyError"]
             ELSE check_if_entry_exists_from(c, input_values, k - 1)

\* The lookup comparing the query with the latest entry only.
check_if_entry_exists_latest_only(c, input_values) ==
    [idx |-> IF /\ c.entries # <<>>
                /\ check_values_match(c.input_vars, c.entries[Len(c.entries)].inputs,
                                      input_values, c.tol) = "match"
             THEN Len(c.entries) ELSE 0,
     raised |-> "none"]

\* The lookup scanning from the oldest entry to the latest.
check_if_entry_exists_oldest_first(c, input_values) ==
    LET M == {k \in 1..Len(c.entries) :
                 check_values_match(c.input_vars, c.entries[k].inputs, input_values, c.tol)
                     = "match"}
    IN  [idx |-> IF M = {} THEN 0 ELSE CHOOSE k \in M : \A j \in M : k <= j,
         raised |-> "none"]

check_if_entry_exists(c, input_values) ==
    check_if_entry_exists_from(c, input_values, Len(c.entries))

\* The entry add_entry works on: the one found, or a new one for the inputs.
entry_for(c, input_values, idx) ==
    IF idx # 0 THEN c.entries[idx]
    ELSE [inputs |-> copy_dict_1d(c.input_vars, input_values),
          outputs |-> EmptyDict, jac |-> EmptyDict]

\* The entry with the given outputs and partials written into it.
entry_updated(c, entry, output_values, jac) ==
    [entry EXCEPT
        !.outputs = IF output_values # None
                    THEN copy_dict_1d(c.output_vars, output_values[1]) ELSE @,
        !.jac = IF jac # None
                THEN copy_dict_2d(c.input_vars, c.output_vars, jac[1]) ELSE @]

\* Storing without the LATEST truncation: the list only ever grows.
entries_stored_keep_all(c, idx, entry) ==
    IF idx # 0 THEN [c.entries EXCEPT ![idx] = entry] ELSE Append(c.entries, entry)

\* Storing under FULL by appending whether or not an entry matched.
entries_stored_always_append(c, idx, entry) ==
    IF c.policy = "LATEST" THEN <<entry>>
    ELSE IF c.policy = "FULL"
    THEN Append(IF idx # 0 THEN [c.entries EXCEPT ![idx] = entry] ELSE c.entries, entry)
    ELSE c.entries

\* The entry list after add_entry: FULL appends an entry that is new (a
\* found one was updated in place), LATEST keeps the entry alone.
entries_stored(c, idx, entry) ==
    IF c.policy = "LATEST" THEN <<entry>>
    ELSE IF idx # 0 THEN [c.entries EXCEPT ![idx] = entry]
    ELSE IF c.policy = "FULL" THEN Append(c.entries, entry)
    ELSE c.entries

\* add_entry after its lookup gave found.
add_entry_found(c, input_values, output_values, jac, found) ==
    IF found.raised # "none" THEN [cache |-> c, raised |-> found.raised]
    ELSE [cache |-> [c EXCEPT !.entries =
                        entries_stored(c, found.idx,
                            entry_updated(c, entry_for(c, input_values, found.idx),
                                          output_values, jac))],
          raised |-> "none"]

\* [cache |-> the cache after the call, raised |-> exception or "none"]
add_entry(c, input_values, output_values, jac) ==
    add_entry_found(c, input_values, output_values, jac, check_if_entry_exists(c, input_values))

\* load_entry after its lookup gave found.
load_entry_found(c, found) ==
    IF found.raised # "none"
    THEN [found |-> FALSE, idx |-> 0, outputs |-> EmptyDict, jac |-> EmptyDict, raised |-> found.raised]
    ELSE IF found.idx # 0
    THEN [found |-> TRUE, idx |-> found.idx,
          outputs |-> copy_dict_1d(c.output_vars, c.entries[found.idx].outputs),
          jac |-> copy_dict_2d(c.input_vars, c.output_vars, c.entries[found.idx].jac),
          raised |-> "none"]
    ELSE [found |-> FALSE, idx |-> 0, outputs |-> EmptyDict, jac |-> EmptyDict, raised |-> "none"]

\* [found, outputs, jac, raised]; (None, None) is found = FALSE.
load_entry(c, input_values) == load_entry_found(c, check_if_entry_exists(c, input_values))

(***************************************************************************)
(* The variables of the parabola example and the inputs drawn for them.    *)
(***************************************************************************)
x1 == Variable("x1", 1, <<2>>, <<100>>, FALSE)
x2 == Variable("x2", 1, <<3>>, <<90>>, FALSE)
y == Variable("y", 1, <<>>, <<>>, FALSE)

ParabolaInputs == <<x1, x2>>
ParabolaOutputs == <<y>>

\* Cache tolerances: 1/2 puts a query exactly on the boundary, 2/3 makes the
\* metric asymmetric between 0 and 1.
Tols == {<<1, 2>>, <<2, 3>>}

\* The members of CachePolicy.  A policy given as the plain string "full"
\* (examples/parabola/main.py 26) is the value "full": CachePolicy is not a
\* str enum, so it equals neither member, and no constructor checks it.
Policies == {"LATEST", "FULL"}

FullInputs == {[n \in {"x1", "x2"} |-> IF n = "x1" THEN <<I(a)>> ELSE <<I(b)>>] :
                  a \in {0, 1, 2}, b \in {0, 1}}

\* What add_entry is given: outputs alone or partials alone, as the
\* discipline gives them.
Payloads ==
    {<<Some([n \in {"y"} |-> <<I(v)>>]), None>> : v \in {0, 1}}
    \cup {<<None, Some([o \in {"y"} |-> [n \in {"x1", "x2"} |-> <<<<I(1)>>>>]])>>}

NoCall == [op |-> "init"]

Idle == <<>>

(***************************************************************************)
(* CacheSpec: a MemoryCache driven directly through add_entry/load_entry.  *)
(***************************************************************************)
CacheInit ==
    /\ cache \in {MemoryCache(ParabolaInputs, ParabolaOutputs, p, t) :
                     p \in Policies \cup {"full"}, t \in Tols}
    /\ last = NoCall
    /\ prev = NoCall
    /\ calls = 0
    /\ discs = Idle
    /\ solver = Idle
    /\ asm = Idle

CacheAdd ==
    \E iv \in FullInputs, pl \in Payloads :
        LET found == check_if_entry_exists(cache, iv)
        IN  /\ calls < MaxCalls
            /\ cache' = add_entry(cache, iv, pl[1], pl[2]).cache
            /\ last' = [op |-> "add", input_values |-> iv, output_values |-> pl[1], jac |-> pl[2],
                        idx |-> found.idx, pre_len |-> Len(cache.entries),
                        pre_entry |-> IF found.idx # 0 THEN Some(cache.entries[found.idx]) ELSE None]
            /\ prev' = last
            /\ calls' = calls + 1
            /\ UNCHANGED <<discs, solver, asm>>

CacheLoad ==
    \E iv \in FullInputs :
        /\ calls < MaxCalls
        /\ last' = [op |-> "load", input_values |-> iv, ret |-> load_entry(cache, iv)]
        /\ prev' = last
        /\ calls' = calls + 1
        /\ UNCHANGED <<cache, discs, solver, asm>>

CacheSpec == CacheInit /\ [][CacheAdd \/ CacheLoad]_vars

(***************************************************************************)
(* Discipline.  A discipline is a record of its declaration (name,         *)
(* input_vars, output_vars, the user functions named by kind), its cache   *)
(* (None when cache_type is None) and its mutable fields.  Six more fields *)
(* count what the calls did: eval_misses and diff_misses the lookups that  *)
(* missed, user_evals and user_diffs the invocations of _eval and          *)
(* _differentiate, eval_returns and diff_returns the invocations that      *)
(* returned, logged the logger.error records, and sweep_hits the           *)
(* evaluations of an approximation sweep that were answered by the cache.  *)
(***************************************************************************)
Discipline(name, input_vars, output_vars, kind, cache_opt) ==
    [name |-> name, input_vars |-> input_vars, output_vars |-> output_vars, kind |-> kind,
     cache |-> cache_opt,
     n_eval |-> 0, n_diff |-> 0,
     diff_method |-> "ANALYTIC", diff_policy |-> "ALWAYS", eps |-> <<1, 1000000>>,
     default_inputs |-> EmptyDict, values |-> EmptyDict, jac |-> EmptyDict,
     approximating_jac |-> FALSE, dtype |-> "FLOAT",
     eval_misses |-> 0, user_evals |-> 0, eval_returns |-> 0,
     diff_misses |-> 0, user_diffs |-> 0, diff_returns |-> 0, logged |-> 0,
     sweep_hits |-> 0]

get_input_values(d) == copy_dict_1d(d.input_vars, d.values)
get_output_values(d) == copy_dict_1d(d.output_vars, d.values)
get_default_inputs(d) == copy_dict_1d(d.input_vars, d.default_inputs)
get_jac(d) == copy_dict_2d(d.input_vars, d.output_vars, d.jac)

add_default_inputs(d, input_values) ==
    [d EXCEPT !.default_inputs = Update(@, copy_dict_1d(d.input_vars, input_values))]

\* The merge with the stored defaults written last, over the given inputs.
merged_inputs_defaults_win(d, input_values) ==
    Update(Update(d.values, copy_dict_1d(d.input_vars, input_values)), get_default_inputs(d))

\* The values after the defaults and then the given inputs are written in.
merged_inputs(d, input_values) ==
    Update(Update(d.values, get_default_inputs(d)), copy_dict_1d(d.input_vars, input_values))

\* logger.error is called iff the check raised.
log_unless_ok(d, verdict) == [d EXCEPT !.logged = IF verdict = "ok" THEN @ ELSE @ + 1]

\* The exception verify_dict_1d raises is caught and logged; _values keeps
\* the merged values.
sanitize_inputs(d, input_values) ==
    log_unless_ok([d EXCEPT !.values = merged_inputs(d, input_values)],
                  verify_dict_1d(d.input_vars, merged_inputs(d, input_values)))

\* The user functions.  Parabola: y = x1**2 + x2**2.  The linear coupling:
\* Linear1 gives y2 = x1 + y1, Linear2 gives y1 = x2 - 0.5 * y2.
eval_func(kind, values) ==
    IF kind = "Parabola"
    THEN [n \in {"y"} |-> VAdd(VMul(values["x1"], values["x1"]),
                               VMul(values["x2"], values["x2"]))]
    ELSE IF kind = "Linear1"
    THEN [n \in {"y2"} |-> VAdd(values["x1"], values["y1"])]
    ELSE IF kind = "Linear3"
    THEN [n \in {"y1"} |-> VAdd(values["x2"], values["y2"])]
    ELSE [n \in {"y1"} |-> VSub(values["x2"], VScale(Q(1, 2), values["y2"]))]

\* The parabola differentiated as x1 and x2 instead of 2 x1 and 2 x2.
diff_func_unscaled(kind, values) ==
    [o \in {"y"} |-> [n \in {"x1", "x2"} |-> <<values[n]>>]]

\* Their partials, each block the array as one row.
diff_func(kind, values) ==
    IF kind = "Parabola"
    THEN [o \in {"y"} |-> [n \in {"x1", "x2"} |-> <<VScale(I(2), values[n])>>]]
    ELSE IF kind = "Linear1"
    THEN [o \in {"y2"} |-> [n \in {"x1", "y1"} |-> <<<<I(1)>>>>]]
    ELSE IF kind = "Linear3"
    THEN [o \in {"y1"} |-> [n \in {"x2", "y2"} |-> <<<<I(1)>>>>]]
    ELSE [o \in {"y1"} |-> [n \in {"x2", "y2"} |-> IF n = "x2" THEN <<<<I(1)>>>>
                                                    ELSE <<<<Q(-1, 2)>>>>]]

\* The lookup missed and _eval is invoked: the user function reads every
\* input, a missing key raising KeyError, and combines them elementwise,
\* arrays of different lengths above 1 raising ValueError (they cannot be
\* broadcast); the base class raises NotImplementedError.  [d, raised]
user_eval(d) ==
    IF /\ d.kind # "Discipline" /\ Names(d.input_vars) \subseteq DOMAIN d.values
       /\ \A a, b \in Names(d.input_vars) :
             Len(d.values[a]) = Len(d.values[b]) \/ Len(d.values[a]) = 1 \/ Len(d.values[b]) = 1
    THEN [d |-> [d EXCEPT !.eval_misses = @ + 1, !.user_evals = @ + 1, !.eval_returns = @ + 1,
                          !.values = Update(@, eval_func(d.kind, d.values))],
          raised |-> "none"]
    ELSE [d |-> [d EXCEPT !.eval_misses = @ + 1, !.user_evals = @ + 1],
          raised |-> IF d.kind = "Discipline" THEN "NotImplementedError"
                     ELSE IF Names(d.input_vars) \subseteq DOMAIN d.values THEN "ValueError"
                     ELSE "KeyError"]

\* A zero block of shape (out_var.size, in_var.size) for every pair.
initialize_dense_jac(dinput_vars, doutput_vars) ==
    [o \in Names(doutput_vars) |->
        [n \in Names(dinput_vars) |->
            [r \in 1..(CHOOSE v \in {doutput_vars[k] : k \in 1..Len(doutput_vars)} : v.name = o).size |->
                [c \in 1..(CHOOSE v \in {dinput_vars[k] : k \in 1..Len(dinput_vars)} : v.name = n).size |->
                    I(0)]]]]

\* The partials lookup missed: _init_jacobian, then _differentiate, which
\* writes the blocks of the user function into the jacobian.  [d, raised]
user_differentiate(d) ==
    IF d.kind # "Discipline" /\ Names(d.input_vars) \subseteq DOMAIN d.values
    THEN [d |-> [d EXCEPT !.diff_misses = @ + 1, !.user_diffs = @ + 1, !.diff_returns = @ + 1,
                          !.jac = Update(initialize_dense_jac(d.input_vars, d.output_vars),
                                         diff_func(d.kind, d.values))],
          raised |-> "none"]
    ELSE [d |-> [d EXCEPT !.diff_misses = @ + 1, !.user_diffs = @ + 1,
                          !.jac = initialize_dense_jac(d.input_vars, d.output_vars)],
          raised |-> IF d.kind # "Discipline" THEN "KeyError" ELSE "NotImplementedError"]

\* _load_cache_entry_outputs finding nothing, whatever the cache holds.
outputs_loaded_miss(d, r) == [d |-> d, entry_exists |-> FALSE, raised |-> "none"]

\* _load_cache_entry_outputs once load_entry gave r.
outputs_loaded(d, r) ==
    IF r.raised # "none" THEN [d |-> d, entry_exists |-> FALSE, raised |-> r.raised]
    ELSE IF r.found /\ DOMAIN r.outputs # {}
    THEN [d |-> [d EXCEPT !.values = Update(@, r.outputs)], entry_exists |-> TRUE, raised |-> "none"]
    ELSE [d |-> d, entry_exists |-> FALSE, raised |-> "none"]

\* _load_cache_entry_outputs: [d, entry_exists, raised]
load_cache_entry_outputs(d) ==
    IF d.cache = None THEN [d |-> d, entry_exists |-> FALSE, raised |-> "none"]
    ELSE outputs_loaded(d, load_entry(d.cache[1], d.values))

\* The discipline holding the cache add_entry left.
with_cache(d, r) == [d |-> [d EXCEPT !.cache = Some(r.cache)], raised |-> r.raised]

\* _add_cache_entry_outputs: [d, raised]
add_cache_entry_outputs(d) ==
    IF d.cache = None THEN [d |-> d, raised |-> "none"]
    ELSE with_cache(d, add_entry(d.cache[1], d.values, Some(d.values), None))

\* eval counting every execution, hit or miss.
eval_counted_always(d, entry_exists) ==
    [log_unless_ok(d, verify_dict_1d(d.output_vars, d.values)) EXCEPT !.n_eval = @ + 1]

\* eval: the output check, logged when it raises, and the counter.
eval_counted(d, entry_exists) ==
    [log_unless_ok(d, verify_dict_1d(d.output_vars, d.values)) EXCEPT
        !.n_eval = IF entry_exists THEN @ ELSE @ + 1,
        !.sweep_hits = IF entry_exists /\ d.approximating_jac THEN @ + 1 ELSE @]

\* eval updating the default inputs and the cache inside a sweep as well.
eval_stored_always(d, entry_exists) ==
    IF entry_exists
    THEN [d |-> add_default_inputs(d, get_input_values(d)), raised |-> "none"]
    ELSE add_cache_entry_outputs(add_default_inputs(d, get_input_values(d)))

\* eval: the update of the default inputs and of the cache.  [d, raised]
eval_stored(d, entry_exists) ==
    IF d.approximating_jac THEN [d |-> d, raised |-> "none"]
    ELSE IF entry_exists
    THEN [d |-> add_default_inputs(d, get_input_values(d)), raised |-> "none"]
    ELSE add_cache_entry_outputs(add_default_inputs(d, get_input_values(d)))

\* What a call hands back: [d, ret, raised, entry_exists], ret being None
\* when the call raised, else get_output_values() for eval and get_jac()
\* for differentiate.
returned(a, op, entry_exists) ==
    [d |-> a.d,
     ret |-> IF a.raised # "none" THEN None
             ELSE IF op = "eval" THEN Some(get_output_values(a.d)) ELSE Some(get_jac(a.d)),
     raised |-> a.raised, entry_exists |-> entry_exists]

\* The part of eval after the outputs were looked up or computed.
eval_finish(d, entry_exists) ==
    returned(eval_stored(eval_counted(d, entry_exists), entry_exists), "eval", entry_exists)

\* eval after the lookup: on a miss the user function is invoked.
eval_looked_up(l) ==
    IF l.raised # "none" THEN returned(l, "eval", FALSE)
    ELSE IF l.entry_exists THEN eval_finish(l.d, TRUE)
    ELSE IF user_eval(l.d).raised # "none" THEN returned(user_eval(l.d), "eval", FALSE)
    ELSE eval_finish(user_eval(l.d).d, FALSE)

\* self._values, self._jac = {}, {}
reset(d) == [d EXCEPT !.values = EmptyDict, !.jac = EmptyDict]

\* Discipline.eval: [d |-> the discipline after the call, ret |-> the
\* returned outputs (None when the call raised), raised, entry_exists]
eval(d, input_values) ==
    eval_looked_up(load_cache_entry_outputs(sanitize_inputs(reset(d), input_values)))

\* "ok" iff every (output, input) block is present with shape
\* (out_var.size, in_var.size)
verify_dict_2d(input_vars, output_vars, values_dict) ==
    IF \A k \in 1..Len(output_vars) :
          /\ output_vars[k].name \in DOMAIN values_dict
          /\ \A j \in 1..Len(input_vars) :
                /\ input_vars[j].name \in DOMAIN values_dict[output_vars[k].name]
                /\ Len(values_dict[output_vars[k].name][input_vars[j].name])
                      = output_vars[k].size
                /\ \A r \in 1..output_vars[k].size :
                      Len(values_dict[output_vars[k].name][input_vars[j].name][r])
                         = input_vars[j].size
    THEN "ok" ELSE "error"

\* _load_cache_entry_jac: [d, entry_exists, raised]
load_cache_entry_jac(d) ==
    IF d.cache = None THEN [d |-> d, entry_exists |-> FALSE, raised |-> "none"]
    ELSE LET r == load_entry(d.cache[1], d.values)
         IN  IF r.raised # "none" THEN [d |-> d, entry_exists |-> FALSE, raised |-> r.raised]
             ELSE IF r.found /\ DOMAIN r.jac # {}
             THEN [d |-> [d EXCEPT !.jac = Update(@, r.jac)], entry_exists |-> TRUE,
                   raised |-> "none"]
             ELSE [d |-> d, entry_exists |-> FALSE, raised |-> "none"]

\* _add_cache_entry_jac: [d, raised]
add_cache_entry_jac(d) ==
    IF d.cache = None THEN [d |-> d, raised |-> "none"]
    ELSE with_cache(d, add_entry(d.cache[1], d.values, None, Some(d.jac)))

\* set_jacobian_approximation: a method that is no approximation method is
\* logged and changes nothing.
set_jacobian_approximation(d, method, eps) ==
    IF method \in {"FINITE_DIFFERENCE", "CENTRAL_FINITE_DIFFERENCE", "COMPLEX_STEP"}
    THEN [d EXCEPT !.diff_method = method, !.eps = eps, !.diff_policy = "ALWAYS"]
    ELSE log_unless_ok(d, "error")

\* The input values with the element at flat position k perturbed: by
\* eps * 1j for the complex step, else by sign * dx, where
\* dx = eps * (1 + abs(input_values[in_var.name][i])).
perturbed(d, x, k, sign) ==
    [x EXCEPT ![VarAt(d.input_vars, k)[1].name] =
        [@ EXCEPT ![VarAt(d.input_vars, k)[2]] =
            IF d.diff_method = "COMPLEX_STEP" THEN CAdd(@, <<0, 1, d.eps[1], d.eps[2]>>)
            ELSE RAdd(@, RMul(sign, RMul(d.eps, RAdd(I(1), RAbs(@)))))]]

\* The jacobian column of one output for position k: (yp - y0) / dx,
\* (yf - yb) / (2 dx), or imag(yp) / eps.
column(d, x, k, y0, yf, yb, o) ==
    IF d.diff_method = "FINITE_DIFFERENCE"
    THEN VScale(RDiv(I(1), RMul(d.eps, RAdd(I(1), RAbs(x[VarAt(d.input_vars, k)[1].name]
                                                        [VarAt(d.input_vars, k)[2]])))),
                VSub(yf[o], y0[o]))
    ELSE IF d.diff_method = "CENTRAL_FINITE_DIFFERENCE"
    THEN VScale(RDiv(I(1), RMul(I(2), RMul(d.eps, RAdd(I(1), RAbs(x[VarAt(d.input_vars, k)[1].name]
                                                                    [VarAt(d.input_vars, k)[2]]))))),
                VSub(yf[o], yb[o]))
    ELSE [r \in 1..Len(yf[o]) |-> RDiv(Im(yf[o][r]), d.eps)]

RECURSIVE sweep_from(_, _, _, _, _)
\* jac[out_var.name][in_var.name][:, i] = column, for every output; a
\* column that is neither of the length of the block's rows nor of length
\* 1 cannot be assigned and raises ValueError.  Then the next position.
column_set(d, x, y0, jac, k, yf, yb) ==
    IF \E j \in 1..Len(d.output_vars) :
          Len(column(d, x, k, y0, yf, yb, d.output_vars[j].name))
              \notin {1, d.output_vars[j].size}
    THEN [d |-> d, raised |-> "ValueError"]
    ELSE CHOOSE s \in {sweep_from(d, x, y0, j, k + 1) :
                          j \in {[o \in DOMAIN jac |->
                                    [n \in DOMAIN jac[o] |->
                                        IF n # VarAt(d.input_vars, k)[1].name THEN jac[o][n]
                                        ELSE [r \in 1..Len(jac[o][n]) |->
                                                 [c \in 1..Len(jac[o][n][r]) |->
                                                     IF c # VarAt(d.input_vars, k)[2]
                                                     THEN jac[o][n][r][c]
                                                     ELSE VAt(column(d, x, k, y0, yf, yb, o), r)]]]]}} :
             TRUE

\* After a perturbed evaluation e: an exception leaves the sweep; central
\* differences evaluate backward as well; then the column is written.
\* yf is None until the forward outputs are known.
RECURSIVE perturbed_evaluated(_, _, _, _, _, _, _)
perturbed_evaluated(d, x, y0, jac, k, yf, e) ==
    IF e.raised # "none" THEN [d |-> e.d, raised |-> e.raised]
    ELSE IF d.diff_method = "CENTRAL_FINITE_DIFFERENCE" /\ yf = None
    THEN CHOOSE s \in {perturbed_evaluated(d, x, y0, jac, k, e.ret, b) :
                          b \in {eval(e.d, perturbed(d, x, k, I(-1)))}} : TRUE
    ELSE column_set(e.d, x, y0, jac, k, IF yf = None THEN e.ret[1] ELSE yf[1], e.ret[1])

\* The loop over the elements of the input variables from flat position k
\* on, each perturbed and evaluated through eval.  [d, raised]
\* (CHOOSE s \in {F(e) : e \in {E}} : TRUE is F(E) with E evaluated once.)
sweep_from(d, x, y0, jac, k) ==
    IF k > get_variable_list_size(d.input_vars) THEN [d |-> [d EXCEPT !.jac = jac], raised |-> "none"]
    ELSE CHOOSE s \in {perturbed_evaluated(d, x, y0, jac, k, None, e) :
                          e \in {eval(d, perturbed(d, x, k, I(1)))}} : TRUE

\* The end of _approximate_jacobian, r being what the sweep left: the saved
\* values are written back and the flag and the dtype are reset.  An
\* exception leaves before the reset.  [d, raised]
sweep_finished(d, r) ==
    IF r.raised # "none" THEN r
    ELSE [d |-> [r.d EXCEPT
                    !.values = Update(Update(@, get_input_values(d)), get_output_values(d)),
                    !.dtype = IF d.diff_method = "COMPLEX_STEP" THEN "FLOAT" ELSE @,
                    !.approximating_jac = FALSE],
          raised |-> "none"]

\* _approximate_jacobian, entered after _init_jacobian: the flag (and, for
\* the complex step, the dtype) is set, then the sweep runs.  [d, raised]
approximate_jacobian(d) ==
    sweep_finished(d,
        sweep_from([d EXCEPT !.approximating_jac = TRUE,
                             !.dtype = IF d.diff_method = "COMPLEX_STEP" THEN "COMPLEX" ELSE @,
                             !.diff_misses = @ + 1],
                   get_input_values(d), get_output_values(d),
                   initialize_dense_jac(d.input_vars, d.output_vars), 1))

\* differentiate: the jacobian check, logged when it raises, and the counter.
differentiate_counted(d, entry_exists) ==
    [log_unless_ok(d, verify_dict_2d(d.input_vars, d.output_vars, d.jac)) EXCEPT
        !.n_diff = IF entry_exists THEN @ ELSE @ + 1]

\* The part of differentiate after the partials were looked up or computed.
differentiate_finish(d, entry_exists) ==
    returned(IF entry_exists THEN [d |-> differentiate_counted(d, TRUE), raised |-> "none"]
             ELSE add_cache_entry_jac(differentiate_counted(d, FALSE)),
             "differentiate", entry_exists)

\* differentiate after the partials lookup: on a miss the user function is
\* invoked, or the jacobian is approximated.
differentiate_computed(c) ==
    IF c.raised # "none" THEN returned(c, "differentiate", FALSE)
    ELSE differentiate_finish(c.d, FALSE)

differentiate_looked_up(l) ==
    IF l.raised # "none" THEN returned(l, "differentiate", FALSE)
    ELSE IF l.entry_exists THEN differentiate_finish(l.d, TRUE)
    ELSE IF l.d.diff_method = "ANALYTIC" THEN differentiate_computed(user_differentiate(l.d))
    ELSE differentiate_computed(approximate_jacobian(l.d))

\* differentiate after the forced eval.
differentiate_evaluated(e) ==
    IF e.raised # "none" THEN returned(e, "differentiate", FALSE)
    ELSE differentiate_looked_up(load_cache_entry_jac(e.d))

\* differentiate going to the partials without evaluating first.
differentiate_unevaluated(d, input_values) ==
    differentiate_looked_up(load_cache_entry_jac(sanitize_inputs(reset(d), input_values)))

\* Discipline.differentiate:
\* [d, ret |-> the returned jacobian (None when the call raised), raised,
\*  entry_exists |-> whether the partials were found in the cache]
\* A method other than ANALYTIC sets the policy to ALWAYS; under ALWAYS
\* eval runs first, else the inputs are only sanitized.
differentiate(d, input_values) ==
    IF d.diff_method # "ANALYTIC" \/ d.diff_policy = "ALWAYS"
    THEN differentiate_evaluated(eval([reset(d) EXCEPT !.diff_policy = "ALWAYS"], input_values))
    ELSE differentiate_looked_up(load_cache_entry_jac(sanitize_inputs(reset(d), input_values)))

(***************************************************************************)
(* DiscSpec: one discipline driven through eval and differentiate: the     *)
(* Parabola of the example, or the base class with the same variables,     *)
(* whose _eval and _differentiate are not overridden.  A call gives each   *)
(* input a declared-size value, a value of the wrong size, or no value.    *)
(***************************************************************************)
MaxDiscCalls == 3

\* The dict a caller passes: a variable drawn as <<>> is left out.
GivenDict(a, b) ==
    [n \in (IF a = <<>> THEN {} ELSE {"x1"}) \cup (IF b = <<>> THEN {} ELSE {"x2"}) |->
        IF n = "x1" THEN a ELSE b]

\* The point of the parabola example, x1 = 50 and x2 = 50, is drawn as well.
CallInputs ==
    {GivenDict(a, b) : a \in {<<>>, <<I(0)>>, <<I(1)>>, <<I(2)>>, <<I(1), I(2)>>},
                       b \in {<<>>, <<I(1)>>}}
        \cup {GivenDict(<<I(50)>>, <<I(50)>>)}
DiffInputs ==
    {GivenDict(a, b) : a \in {<<>>, <<I(1)>>, <<I(1), I(2)>>}, b \in {<<>>, <<I(1)>>}}
        \cup {GivenDict(<<I(50)>>, <<I(50)>>)}

\* The defaults of Discipline.__init__: cache_policy LATEST, cache_tol 1e-9.
DefaultPolicy == "LATEST"
DefaultTol == <<1, 1000000000>>

BaseDiscipline ==
    Discipline("Base", ParabolaInputs, ParabolaOutputs, "Discipline",
               Some(MemoryCache(ParabolaInputs, ParabolaOutputs, DefaultPolicy, DefaultTol)))

Parabola(policy, tol) ==
    Discipline("Parabola", ParabolaInputs, ParabolaOutputs, "Parabola",
               Some(MemoryCache(ParabolaInputs, ParabolaOutputs, policy, tol)))

\* What a call leaves in last: the call, the inputs it ran with (defaults
\* merged in), its result, whether the user evaluation function raised in
\* it, whether it went on to compute the partials, and the default inputs and
\* counters before it.
CallRecord(op, d, input_values, r) ==
    [op |-> op, input_values |-> input_values,
     inputs |-> copy_dict_1d(d.input_vars, merged_inputs(reset(d), input_values)),
     ret |-> r.ret, raised |-> r.raised, entry_exists |-> r.entry_exists,
     pre_default_inputs |-> d.default_inputs,
     pre_n_eval |-> d.n_eval, pre_n_diff |-> d.n_diff,
     pre_user_evals |-> d.user_evals, pre_user_diffs |-> d.user_diffs,
     user_eval_raised |-> r.d.user_evals - r.d.eval_returns > d.user_evals - d.eval_returns,
     computing_started |-> r.d.diff_misses > d.diff_misses,
     pre_logged |-> d.logged]

DiscInit ==
    /\ discs \in {<<Parabola(p, t)>> : p \in Policies, t \in Tols} \cup {<<BaseDiscipline>>}
    /\ last = NoCall
    /\ prev = NoCall
    /\ calls = 0
    /\ cache = Idle
    /\ solver = Idle
    /\ asm = Idle

Evaluate ==
    \E iv \in CallInputs :
        /\ calls < MaxDiscCalls
        /\ \E r \in {eval(discs[1], iv)} :
              /\ discs' = <<r.d>>
              /\ last' = CallRecord("eval", discs[1], iv, r)
              /\ prev' = last
              /\ calls' = calls + 1
              /\ UNCHANGED <<cache, solver, asm>>

Differentiate ==
    \E iv \in DiffInputs :
        /\ calls < MaxDiscCalls
        /\ \E r \in {differentiate(discs[1], iv)} :
              /\ discs' = <<r.d>>
              /\ last' = CallRecord("differentiate", discs[1], iv, r)
              /\ prev' = last
              /\ calls' = calls + 1
              /\ UNCHANGED <<cache, solver, asm>>

DiscSpec == DiscInit /\ [][Evaluate \/ Differentiate]_vars

(***************************************************************************)
(* ApproxSpec: the Parabola with its analytic partials or after            *)
(* set_jacobian_approximation chose forward differences, central           *)
(* differences or the complex step, with a step eps of 1/10 or 1 and a     *)
(* cache tolerance of 1/10 or 1/2, which stand for the steps and           *)
(* tolerances below and above each other.  differentiate is called at      *)
(* (1, 1), at (0, 1), with no argument, with x1 of size 2, and with x1 of  *)
(* size 2 and x2 of size 3, which the user function cannot broadcast;      *)
(* eval is called at (1, 1), with x1 = 2 alone, and with no argument.      *)
(***************************************************************************)
ApproxInit ==
    /\ discs \in {<<set_jacobian_approximation(Parabola(DefaultPolicy, t), method, e)>> :
                     t \in {Q(1, 10), Q(1, 2)},
                     method \in {"FINITE_DIFFERENCE", "CENTRAL_FINITE_DIFFERENCE",
                                 "COMPLEX_STEP", "ANALYTIC"},
                     e \in {Q(1, 10), I(1)}}
    /\ last = NoCall
    /\ prev = NoCall
    /\ calls = 0
    /\ cache = Idle
    /\ solver = Idle
    /\ asm = Idle

ApproxEvaluate ==
    \E iv \in {GivenDict(<<I(1)>>, <<I(1)>>), GivenDict(<<I(2)>>, <<>>), EmptyDict} :
        \E r \in {eval(discs[1], iv)} :
            /\ calls < MaxDiscCalls
            /\ discs' = <<r.d>>
            /\ last' = CallRecord("eval", discs[1], iv, r)
            /\ prev' = last
            /\ calls' = calls + 1
            /\ UNCHANGED <<cache, solver, asm>>

ApproxDifferentiate ==
    \E iv \in {GivenDict(<<I(1)>>, <<I(1)>>), GivenDict(<<I(0)>>, <<I(1)>>), EmptyDict,
                GivenDict(<<I(1), I(1)>>, <<I(1)>>),
                GivenDict(<<I(1), I(1)>>, <<I(1), I(1), I(1)>>)} :
        \E r \in {differentiate(discs[1], iv)} :
            /\ calls < MaxDiscCalls
            /\ discs' = <<r.d>>
            /\ last' = CallRecord("differentiate", discs[1], iv, r)
            /\ prev' = last
            /\ calls' = calls + 1
            /\ UNCHANGED <<cache, solver, asm>>

ApproxSpec == ApproxInit /\ [][ApproxEvaluate \/ ApproxDifferentiate]_vars

(***************************************************************************)
(* Dense matrices of rationals, a matrix being the sequence of its rows,   *)
(* and the exact solution of a linear system (what spsolve computes, with  *)
(* no rounding).                                                           *)
(***************************************************************************)
MRows(A) == Len(A)
MCols(A) == IF Len(A) = 0 THEN 0 ELSE Len(A[1])
MTranspose(A) == [j \in 1..MCols(A) |-> [i \in 1..MRows(A) |-> A[i][j]]]
MSub(A, B) == [i \in 1..MRows(A) |-> [j \in 1..MCols(A) |-> RSub(A[i][j], B[i][j])]]

RECURSIVE DotFrom(_, _, _, _)
DotFrom(A, B, ij, k) ==
    IF k > MCols(A) THEN I(0)
    ELSE RAdd(RMul(A[ij[1]][k], B[k][ij[2]]), DotFrom(A, B, ij, k + 1))

MMul(A, B) == [i \in 1..MRows(A) |-> [j \in 1..MCols(B) |-> DotFrom(A, B, <<i, j>>, 1)]]

Minor(A, i, j) ==
    [r \in 1..(MRows(A) - 1) |->
        [c \in 1..(MRows(A) - 1) |-> A[IF r < i THEN r ELSE r + 1][IF c < j THEN c ELSE c + 1]]]

RECURSIVE Det(_)
RECURSIVE DetFrom(_, _)
DetFrom(A, j) ==
    IF j > MRows(A) THEN I(0)
    ELSE RAdd(RMul(IF j % 2 = 1 THEN A[1][j] ELSE RNeg(A[1][j]), Det(Minor(A, 1, j))),
              DetFrom(A, j + 1))

Det(A) == IF MRows(A) = 0 THEN I(1) ELSE DetFrom(A, 1)

\* The transposed matrix of cofactors over the determinant
Inverse(A) ==
    [i \in 1..MRows(A) |->
        [j \in 1..MRows(A) |->
            RDiv(IF (i + j) % 2 = 0 THEN Det(Minor(A, j, i)) ELSE RNeg(Det(Minor(A, j, i))),
                 Det(A))]]

\* spsolve(A, B): [singular, x, raised].  For an exactly singular A scipy
\* warns and returns an array of nan when B is a single column (x is then
\* "nan"), and raises from the factorization when B is a sparse matrix of
\* several columns.
spsolve(A, B) ==
    IF Det(A) = I(0)
    THEN [singular |-> TRUE, x |-> "nan",
          raised |-> IF MCols(B) > 1 THEN "RuntimeError" ELSE "none"]
    ELSE [singular |-> FALSE, x |-> MMul(Inverse(A), B), raised |-> "none"]

(***************************************************************************)
(* JacobianAssembler.assemble_partial                                      *)
(***************************************************************************)
\* One element of the assembled matrix, for the output at <<out_var, r>>
\* and the input at <<in_var, c>>.
partial_element(out, in, partial, sign) ==
    IF out[1].name = in[1].name THEN (IF out[2] = in[2] THEN I(1) ELSE I(0))
    ELSE IF in[1].name \in DOMAIN partial[out[1].name]
    THEN RMul(sign, partial[out[1].name][in[1].name][out[2]][in[2]])
    ELSE I(0)

\* [matrix, raised]: partial[out_var.name] is looked up for every pair of
\* different names, a missing output raising KeyError.
assemble_partial(input_vars, output_vars, partial, as_residual) ==
    IF \E k \in 1..Len(output_vars) :
          /\ output_vars[k].name \notin DOMAIN partial
          /\ \E j \in 1..Len(input_vars) : input_vars[j].name # output_vars[k].name
    THEN [matrix |-> <<>>, raised |-> "KeyError"]
    ELSE [matrix |->
             [i \in 1..get_variable_list_size(output_vars) |->
                 [j \in 1..get_variable_list_size(input_vars) |->
                     partial_element(VarAt(output_vars, i), VarAt(input_vars, j), partial,
                                     IF as_residual THEN I(-1) ELSE I(1))]],
          raised |-> "none"]

(***************************************************************************)
(* JacobianAssembler.assemble_total.  A total is [total, finite, raised]:  *)
(* the matrix, whether it holds numbers (a singular dRdy leaves nan), and  *)
(* the exception that left the computation.                                *)
(***************************************************************************)
\* The four assembled matrices: [dRdy, dRdx, dfdy, dfdx, raised]
assemble_partials(input_vars, output_vars, coupling_vars, partial) ==
    LET dRdy == assemble_partial(coupling_vars, coupling_vars, partial, TRUE)
        dRdx == assemble_partial(input_vars, coupling_vars, partial, TRUE)
        dfdy == assemble_partial(coupling_vars, output_vars, partial, FALSE)
        dfdx == assemble_partial(input_vars, output_vars, partial, FALSE)
    IN  [dRdy |-> dRdy.matrix, dRdx |-> dRdx.matrix, dfdy |-> dfdy.matrix, dfdx |-> dfdx.matrix,
         raised |-> IF dRdy.raised # "none" THEN dRdy.raised
                    ELSE IF dRdx.raised # "none" THEN dRdx.raised
                    ELSE IF dfdy.raised # "none" THEN dfdy.raised
                    ELSE dfdx.raised]

NoTotal(raised) == [total |-> <<>>, finite |-> FALSE, raised |-> raised]

\* The adjoint path solving with the matrix as assembled, not transposed
total_adjoint_untransposed(dfdx, dfdy, dRdy, dRdx) ==
    LET lambda == spsolve(dRdy, MTranspose(dfdy))
    IN  IF lambda.singular THEN NoTotal(lambda.raised)
        ELSE [total |-> MSub(dfdx, MMul(MTranspose(lambda.x), dRdx)),
              finite |-> TRUE, raised |-> "none"]

\* total = dfdx - lambda^T @ dRdx, lambda the solution of the adjoint system
total_adjoint(dfdx, dfdy, dRdy, dRdx) ==
    LET lambda == spsolve(MTranspose(dRdy), MTranspose(dfdy))
    IN  IF lambda.singular THEN NoTotal(lambda.raised)
        ELSE [total |-> MSub(dfdx, MMul(MTranspose(lambda.x), dRdx)),
              finite |-> TRUE, raised |-> "none"]

\* total = dfdx - dfdy @ S, S the solution of the direct system
total_direct(dfdx, dfdy, dRdy, dRdx) ==
    LET S == spsolve(dRdy, dRdx)
    IN  IF S.singular THEN NoTotal(S.raised)
        ELSE [total |-> MSub(dfdx, MMul(dfdy, S.x)), finite |-> TRUE, raised |-> "none"]

\* The rule of the docstring: adjoint when the inputs are the larger side
uses_adjoint_larger_inputs(n_inputs, n_outputs) == n_inputs > n_outputs

uses_adjoint(n_inputs, n_outputs) == ~(n_inputs >= n_outputs)

\* The position before variable name in the concatenated list
RECURSIVE offset_of(_, _)
offset_of(vs, name) ==
    IF vs[1].name = name THEN 0 ELSE vs[1].size + offset_of(Tail(vs), name)

var_named(vs, name) == vs[CHOOSE k \in 1..Len(vs) : vs[k].name = name]

\* Each block is the slice of values_arr at the rows of the output and the
\* columns of the input.
array_to_dict_2d(input_vars, output_vars, values_arr) ==
    [o \in Names(output_vars) |->
        [i \in Names(input_vars) |->
            [r \in 1..var_named(output_vars, o).size |->
                [c \in 1..var_named(input_vars, i).size |->
                    values_arr[offset_of(output_vars, o) + r][offset_of(input_vars, i) + c]]]]]

\* assemble_total after the partial matrices m: [path, total, finite,
\* raised], total being the dictionary of blocks
total_computed(input_vars, output_vars, m, adjoint) ==
    IF m.raised # "none"
    THEN [path |-> "none", finite |-> FALSE, raised |-> m.raised, total |-> EmptyDict]
    ELSE LET t == IF adjoint THEN total_adjoint(m.dfdx, m.dfdy, m.dRdy, m.dRdx)
                  ELSE total_direct(m.dfdx, m.dfdy, m.dRdy, m.dRdx)
         IN  [path |-> IF adjoint THEN "adjoint" ELSE "direct",
              finite |-> t.finite, raised |-> t.raised,
              total |-> IF t.finite THEN array_to_dict_2d(input_vars, output_vars, t.total)
                        ELSE EmptyDict]

assemble_total(input_vars, output_vars, coupling_vars, partial) ==
    total_computed(input_vars, output_vars,
                   assemble_partials(input_vars, output_vars, coupling_vars, partial),
                   uses_adjoint(get_variable_list_size(input_vars),
                                get_variable_list_size(output_vars)))

(***************************************************************************)
(* Solver.  The record holds the fields of the solver; pc is the position  *)
(* of solve ("idle" before the call, "loop" at the head of the while loop, *)
(* "done" after the return or the exception), given the estimate the       *)
(* caller passed, ret the returned dictionary, raised the exception that   *)
(* left solve.  The disciplines are discs.  Every coupling variable here   *)
(* has size 1, so the norm of an array is the absolute value of its        *)
(* element.                                                                *)
(***************************************************************************)
\* input_vars += disc.input_vars / output_vars += disc.output_vars
RECURSIVE var_list(_, _, _)
var_list(ds, k, field) ==
    IF k > Len(ds) THEN <<>> ELSE ds[k][field] \o var_list(ds, k + 1, field)

RECURSIVE couplings_from(_, _, _, _)
couplings_from(outs, ins, k, acc) ==
    IF k > Len(outs) THEN acc
    ELSE couplings_from(outs, ins, k + 1,
             IF /\ \E i \in 1..Len(ins) : ins[i] = outs[k]
                /\ ~\E i \in 1..Len(acc) : acc[i] = outs[k]
             THEN Append(acc, outs[k]) ELSE acc)

get_couplings(ds) ==
    couplings_from(var_list(ds, 1, "output_vars"), var_list(ds, 1, "input_vars"), 1, <<>>)

Solver(type, ds, n_iter_max, relax_fact, tol) ==
    [type |-> type, n_iter_max |-> n_iter_max, relax_fact |-> relax_fact, tol |-> tol,
     coupling_vars |-> get_couplings(ds),
     history |-> <<>>, iter |-> 0, status |-> "NOT_CONVERGED",
     old_values |-> EmptyDict, values |-> EmptyDict,
     pc |-> "idle", given |-> EmptyDict, ret |-> None, raised |-> "none", logged |-> 0]

RECURSIVE default_values_from(_, _, _)
default_values_from(ds, k, acc) ==
    IF k > Len(ds) THEN acc
    ELSE default_values_from(ds, k + 1, Update(acc, get_default_inputs(ds[k])))

\* The given value, else the default, else no value.
initial_values(coupling_vars, given, default_values) ==
    [n \in {m \in Names(coupling_vars) : m \in DOMAIN given \/ m \in DOMAIN default_values} |->
        IF n \in DOMAIN given THEN given[n] ELSE default_values[n]]

\* _initialize_values: the error of verify_dict_1d is caught and logged.
initialize_values(s, ds, given) ==
    [s EXCEPT
        !.values = initial_values(s.coupling_vars, given, default_values_from(ds, 1, EmptyDict)),
        !.logged = IF verify_dict_1d(s.coupling_vars,
                        initial_values(s.coupling_vars, given,
                                       default_values_from(ds, 1, EmptyDict))) = "ok"
                   THEN @ ELSE @ + 1,
        !.old_values = Update(@, [n \in Names(s.coupling_vars) |->
                                    [i \in 1..var_named(s.coupling_vars, n).size |-> I(0)]])]

\* Sum over the coupling variables of norm(new - old) / (1 + norm(new)).
RECURSIVE metric_from(_, _)
metric_from(s, k) ==
    IF k > Len(s.coupling_vars) THEN I(0)
    ELSE RAdd(RDiv(RAbs(VSub(s.values[s.coupling_vars[k].name],
                             s.old_values[s.coupling_vars[k].name])[1]),
                   RAdd(I(1), RAbs(s.values[s.coupling_vars[k].name][1]))),
              metric_from(s, k + 1))

\* _update_history: [s, raised]; a coupling variable without a value
\* raises KeyError.
update_history(s) ==
    IF Names(s.coupling_vars) \subseteq DOMAIN s.values
    THEN [s |-> [s EXCEPT !.history = Append(@, metric_from(s, 1)),
                          !.status = IF RLeq(metric_from(s, 1), s.tol) THEN "CONVERGED" ELSE @],
          raised |-> "none"]
    ELSE [s |-> s, raised |-> "KeyError"]

\* _apply_relaxation
apply_relaxation(s) ==
    [s EXCEPT !.values =
        Update(@, [n \in Names(s.coupling_vars) |->
                     VAdd(VScale(s.relax_fact, s.values[n]),
                          VScale(RSub(I(1), s.relax_fact), s.old_values[n]))])]

\* The end of a sweep over the disciplines: [discs, outputs, partials, raised]
swept(ds, outputs, partials, raised) ==
    [discs |-> ds, outputs |-> outputs, partials |-> partials, raised |-> raised]

\* Every strategy taking an input from the outputs of this iteration first.
sweep_inputs_fresh_first(type, d, outputs, old) ==
    [n \in {m \in Names(d.input_vars) : m \in DOMAIN outputs \/ m \in DOMAIN old} |->
        IF n \in DOMAIN outputs THEN outputs[n] ELSE old[n]]

\* Every strategy passing the old values only.
sweep_inputs_old_only(type, d, outputs, old) == old

\* The inputs a strategy evaluates a discipline with.  NonlinearGS takes an
\* input from the outputs of this iteration when it is there, else from the
\* old values; NonlinearJacobi and NewtonRaphson pass the old values.
sweep_inputs(type, d, outputs, old) ==
    IF type # "NonlinearGS" THEN old
    ELSE [n \in {m \in Names(d.input_vars) : m \in DOMAIN outputs \/ m \in DOMAIN old} |->
             IF n \in DOMAIN outputs THEN outputs[n] ELSE old[n]]

\* The loop of _single_iteration over the disciplines from the k-th on:
\* each is evaluated and, by NewtonRaphson, differentiated at the old
\* values; an exception ends the sweep.
RECURSIVE single_iteration_from(_, _, _, _, _, _)
sweep_differentiated(type, ds, old, k, outputs, partials, r) ==
    IF r.raised # "none" THEN swept([ds EXCEPT ![k] = r.d], outputs, partials, r.raised)
    ELSE single_iteration_from(type, [ds EXCEPT ![k] = r.d], old, k + 1, outputs,
                               Update(partials, r.ret[1]))

sweep_evaluated(type, ds, old, k, outputs, partials, r) ==
    IF r.raised # "none" THEN swept([ds EXCEPT ![k] = r.d], outputs, partials, r.raised)
    ELSE IF type = "NewtonRaphson"
    THEN CHOOSE sw \in {sweep_differentiated(type, ds, old, k, Update(outputs, r.ret[1]),
                                              partials, j) :
                            j \in {differentiate(r.d, old)}} : TRUE
    ELSE single_iteration_from(type, [ds EXCEPT ![k] = r.d], old, k + 1,
                               Update(outputs, r.ret[1]), partials)

single_iteration_from(type, ds, old, k, outputs, partials) ==
    IF k > Len(ds) THEN swept(ds, outputs, partials, "none")
    ELSE CHOOSE sw \in {sweep_evaluated(type, ds, old, k, outputs, partials, r) :
                            r \in {eval(ds[k], sweep_inputs(type, ds[k], outputs, old))}} : TRUE

\* array_to_dict_1d of a column
RECURSIVE column_to_dict_from(_, _, _)
column_to_dict_from(vs, col, idx) ==
    IF Len(vs) = 0 THEN EmptyDict
    ELSE Update([n \in {vs[1].name} |-> [i \in 1..vs[1].size |-> col[idx + i][1]]],
                column_to_dict_from(Tail(vs), col, idx + vs[1].size))

\* -R as a column (dict_to_array_1d), R = old - outputs
minus_residual(s, outputs) ==
    [i \in 1..get_variable_list_size(s.coupling_vars) |->
        <<VSub(outputs[VarAt(s.coupling_vars, i)[1].name],
               s.old_values[VarAt(s.coupling_vars, i)[1].name])[VarAt(s.coupling_vars, i)[2]]>>]

\* NewtonRaphson: values = old + corr, corr solving dRdy corr = -R.
\* [values, raised]
newton_assembled(s, outputs, dRdy) ==
    IF dRdy.raised # "none" THEN [values |-> EmptyDict, raised |-> dRdy.raised]
    ELSE LET corr == spsolve(dRdy.matrix, minus_residual(s, outputs))
         IN  [values |-> [n \in Names(s.coupling_vars) |->
                            IF corr.singular
                            THEN [i \in 1..var_named(s.coupling_vars, n).size |-> <<0, 0>>]
                            ELSE VAdd(s.old_values[n],
                                      column_to_dict_from(s.coupling_vars, corr.x, 0)[n])],
              raised |-> "none"]

\* The values a strategy sets from what its sweep gave: [values, raised]
strategy_values(s, sw) ==
    IF ~(Names(s.coupling_vars) \subseteq DOMAIN sw.outputs)
    THEN [values |-> EmptyDict, raised |-> "KeyError"]
    ELSE IF s.type = "NewtonRaphson"
    THEN newton_assembled(s, sw.outputs,
             assemble_partial(s.coupling_vars, s.coupling_vars, sw.partials, TRUE))
    ELSE [values |-> [n \in Names(s.coupling_vars) |-> sw.outputs[n]], raised |-> "none"]

\* The head of a loop iteration: the counter, and the swap of the values.
begin_iteration(s) ==
    [s EXCEPT !.iter = @ + 1, !.old_values = s.values, !.values = EmptyDict]

\* An exception leaves solve.
failed(s, e) == [s EXCEPT !.pc = "done", !.raised = e]

\* After _update_history: back at the head of the loop.
at_loop(u) == IF u.raised # "none" THEN failed(u.s, u.raised) ELSE [u.s EXCEPT !.pc = "loop"]

\* After the sweep of _single_iteration: the values, relaxation and
\* history.  [solver, discs]
\* (CHOOSE u \in {F(v) : v \in {E}} : TRUE is F(E) with E evaluated once.)
iteration_swept(s, sw) ==
    [solver |-> IF sw.raised # "none" THEN failed(s, sw.raised)
                ELSE CHOOSE u \in
                        {IF v.raised # "none" THEN failed(s, v.raised)
                         ELSE CHOOSE h \in {at_loop(update_history(t)) :
                                               t \in {apply_relaxation([s EXCEPT !.values = v.values])}} :
                                  TRUE :
                            v \in {strategy_values(s, sw)}} : TRUE,
     discs |-> sw.discs]

\* One pass through the body of the while loop: [solver, discs]
iteration(s, ds) ==
    CHOOSE r \in {iteration_swept(begin_iteration(s), sw) :
                     sw \in {single_iteration_from(s.type, ds, s.values, 1, EmptyDict, EmptyDict)}} :
        TRUE

\* The loop guard with the cap left out.
loop_continues_uncapped(s) == s.status # "CONVERGED"

\* while self.iter < self.n_iter_max, with the break on CONVERGED
loop_continues(s) == s.iter < s.n_iter_max /\ s.status # "CONVERGED"

\* solve starting without emptying the history of the previous call.
solve_begin_keeps_history(s, ds, given) ==
    at_loop(update_history(initialize_values(
        [s EXCEPT !.iter = 0, !.status = "NOT_CONVERGED",
                  !.given = given, !.ret = None, !.raised = "none"], ds, given)))

\* solve up to the loop: the reset, _initialize_values, _update_history.
solve_begin(s, ds, given) ==
    at_loop(update_history(initialize_values(
        [s EXCEPT !.history = <<>>, !.iter = 0, !.status = "NOT_CONVERGED",
                  !.given = given, !.ret = None, !.raised = "none"], ds, given)))

(***************************************************************************)
(* SolverSpec: the linear coupling y2 = x1 + y1, y1 = x2 - 0.5 * y2 with   *)
(* x1 = 1 and x2 = 2 as default inputs, solved once by one of the three    *)
(* strategies; or the coupling y2 = x1 + y1, y1 = x2 + y2, whose Jacobian   *)
(* dR/dY is singular.  solve may be called again on the same solver.  The iteration cap and the tolerance are scaled so that the *)
(* arithmetic stays exact: caps up to NIterMax and tolerance 1/10 stand    *)
(* for 50 and 1e-6, with initial estimates up to 3.                        *)
(***************************************************************************)
NIterMax == 11
\* solve is called at most twice on the same solver
MaxSolves == 2

y1 == Variable("y1", 1, <<>>, <<>>, FALSE)
y2 == Variable("y2", 1, <<>>, <<>>, FALSE)

Linear1(defaults) ==
    add_default_inputs(
        Discipline("D1", <<x1, y1>>, <<y2>>, "Linear1",
                   Some(MemoryCache(<<x1, y1>>, <<y2>>, DefaultPolicy, DefaultTol))),
        Update(defaults, [n \in {"x1"} |-> <<I(1)>>]))

Linear2(defaults) ==
    add_default_inputs(
        Discipline("D2", <<x2, y2>>, <<y1>>, "Linear2",
                   Some(MemoryCache(<<x2, y2>>, <<y1>>, DefaultPolicy, DefaultTol))),
        Update(defaults, [n \in {"x2"} |-> <<I(2)>>]))

\* y1 = x2 + y2: with Linear1 the coupling Jacobian dR/dY is
\* [[1, -1], [-1, 1]], which is singular.
Linear3(defaults) ==
    add_default_inputs(
        Discipline("D2", <<x2, y2>>, <<y1>>, "Linear3",
                   Some(MemoryCache(<<x2, y2>>, <<y1>>, DefaultPolicy, DefaultTol))),
        Update(defaults, [n \in {"x2"} |-> <<I(2)>>]))

\* The dict a caller passes to solve: a variable drawn as <<>> is left out.
InitialEstimates ==
    {[n \in (IF a = <<>> THEN {} ELSE {"y1"}) \cup (IF b = <<>> THEN {} ELSE {"y2"}) |->
         IF n = "y1" THEN a ELSE b] : a \in {<<>>, <<I(0)>>, <<I(1)>>, <<I(3)>>}, b \in {<<>>, <<I(0)>>, <<I(1)>>, <<I(3)>>}}

\* The disciplines hold x1 = 1 and x2 = 2 as defaults, with or without
\* defaults for the coupling variables; the solver has relax_fact 1,
\* tolerance 1/10 and a cap of 1, 2 or NIterMax.
SolverInit ==
    /\ discs \in {<<Linear1(cd), IF singular THEN Linear3(cd) ELSE Linear2(cd)>> :
                     cd \in {EmptyDict,
                             [n \in {"y1", "y2"} |-> IF n = "y1" THEN <<I(2)>> ELSE <<I(1)>>]},
                     singular \in BOOLEAN}
    /\ solver \in {Solver(t, discs, n, I(1), Q(1, 10)) :
                      t \in {"NonlinearJacobi", "NonlinearGS", "NewtonRaphson"},
                      n \in {1, 2, NIterMax}}
    /\ last = NoCall
    /\ prev = NoCall
    /\ calls = 0
    /\ cache = Idle
    /\ asm = Idle

Solve ==
    \E given \in InitialEstimates :
        /\ solver.pc \in {"idle", "done"}
        /\ calls < MaxSolves
        /\ solver' = solve_begin(solver, discs, given)
        /\ calls' = calls + 1
        /\ UNCHANGED <<cache, discs, asm, last, prev>>

Iterate ==
    /\ solver.pc = "loop"
    /\ loop_continues(solver)
    /\ \E r \in {iteration(solver, discs)} :
          /\ solver' = r.solver
          /\ discs' = r.discs
    /\ UNCHANGED <<cache, asm, last, prev, calls>>

Return ==
    /\ solver.pc = "loop"
    /\ ~loop_continues(solver)
    /\ solver' = [solver EXCEPT !.pc = "done", !.ret = Some(solver.values)]
    /\ UNCHANGED <<cache, discs, asm, last, prev, calls>>

SolverSpec == SolverInit /\ [][Solve \/ Iterate \/ Return]_vars

(***************************************************************************)
(* GraphSpec: a study is declared.  Disciplines are constructed one by one *)
(* over variables of the solver and sellar examples, among them a second   *)
(* Variable instance named y1 that carries bounds, and a solver is then    *)
(* created over the list, which computes its coupling variables.           *)
(***************************************************************************)
MaxDiscs == 2

y1_bounded == Variable("y1", 1, <<-100>>, <<100>>, FALSE)

GraphInit ==
    /\ discs = <<>>
    /\ solver = Idle
    /\ last = NoCall
    /\ prev = NoCall
    /\ calls = 0
    /\ cache = Idle
    /\ asm = Idle

NewDiscipline ==
    \E ins \in {<<x1>>, <<x1, y1>>, <<y2, x1>>, <<y1_bounded, y2>>},
       outs \in {<<y1>>, <<y2>>, <<y2, y1>>, <<y1_bounded>>} :
        /\ solver = Idle
        /\ Len(discs) < MaxDiscs
        /\ discs' = Append(discs,
                        Discipline("D" \o ToString(Len(discs) + 1), ins, outs, "Discipline",
                                   Some(MemoryCache(ins, outs, DefaultPolicy, DefaultTol))))
        /\ UNCHANGED <<cache, solver, asm, last, prev, calls>>

CreateSolver ==
    \E type \in {"NonlinearJacobi", "NonlinearGS", "NewtonRaphson"} :
        /\ solver = Idle
        /\ discs # <<>>
        /\ solver' = Solver(type, discs, NIterMax, I(1), Q(1, 10))
        /\ UNCHANGED <<cache, discs, asm, last, prev, calls>>

GraphSpec == GraphInit /\ [][NewDiscipline \/ CreateSolver]_vars

(***************************************************************************)
(* AsmSpec: the assembler called once, with the partials of a system of    *)
(* two disciplines coupled through y1 and y2: the first computes y1 and f  *)
(* from x1, z and y2, the second y2 and g from x2, z and y1.  z has size   *)
(* 2, every other variable size 1.  The outputs have total size 2 or 3,   *)
(* so the right-hand side that the path taken hands to spsolve always has  *)
(* several columns.                                                        *)
(***************************************************************************)
z == Variable("z", 2, <<>>, <<>>, FALSE)
f == Variable("f", 1, <<>>, <<>>, FALSE)
g == Variable("g", 1, <<>>, <<>>, FALSE)

AsmCouplings == <<y1, y2>>
AsmInputLists == {<<x1>>, <<x1, x2>>, <<z>>, <<x1, z>>}
AsmOutputLists == {<<f, g>>, <<f, y1>>, <<f, g, y1>>}

Scalar(v) == <<<<v>>>>

\* y1 = a * y2 + c * x1 + z[1],  f = p * x1 + q * y1 + y2
\* y2 = b * y1 + x2,             g = x2 + z[2] + q * y2
AsmPartial(a, b, c, p, q) ==
    [n \in {"y1", "y2", "f", "g"} |->
        IF n = "y1" THEN [i \in {"y2", "x1", "z"} |->
                            IF i = "y2" THEN Scalar(a)
                            ELSE IF i = "x1" THEN Scalar(c) ELSE <<<<I(1), I(0)>>>>]
        ELSE IF n = "y2" THEN [i \in {"y1", "x2"} |->
                            IF i = "y1" THEN Scalar(b) ELSE Scalar(I(1))]
        ELSE IF n = "f" THEN [i \in {"x1", "y1", "y2"} |->
                            IF i = "x1" THEN Scalar(p)
                            ELSE IF i = "y1" THEN Scalar(q) ELSE Scalar(I(1))]
        ELSE [i \in {"x2", "z", "y2"} |->
                            IF i = "x2" THEN Scalar(I(1))
                            ELSE IF i = "z" THEN <<<<I(0), I(1)>>>> ELSE Scalar(q)]]

AsmInit ==
    /\ asm = NoCall
    /\ last = NoCall
    /\ prev = NoCall
    /\ calls = 0
    /\ cache = Idle
    /\ discs = Idle
    /\ solver = Idle

AssemblePartial ==
    \E input_vars \in AsmInputLists \cup {AsmCouplings},
       output_vars \in AsmOutputLists \cup {AsmCouplings},
       as_residual \in BOOLEAN,
       partial \in {[n \in outs |-> AsmPartial(I(2), Q(-1, 2), I(1), I(1), q)[n]] :
                       q \in {I(1), I(2)}, outs \in {{"y1", "y2", "f", "g"}, {"y1", "y2", "f"}}} :
        /\ asm.op = "init"
        /\ asm' = [op |-> "assemble_partial", input_vars |-> input_vars,
                   output_vars |-> output_vars, partial |-> partial,
                   as_residual |-> as_residual,
                   r |-> assemble_partial(input_vars, output_vars, partial, as_residual)]
        /\ UNCHANGED <<cache, discs, solver, last, prev, calls>>

AssembleTotal ==
    \E input_vars \in AsmInputLists, output_vars \in AsmOutputLists,
       partial \in {AsmPartial(a, b, c, p, q) :
                      a \in {I(0), I(1), I(2), Q(-1, 2)}, b \in {I(0), I(1), I(2), Q(-1, 2)},
                      c \in {I(1), I(2)}, p \in {I(0), I(1)}, q \in {I(1), I(2)}} :
        /\ asm.op = "init"
        /\ asm' = [op |-> "assemble_total", input_vars |-> input_vars,
                   output_vars |-> output_vars, coupling_vars |-> AsmCouplings,
                   partial |-> partial,
                   r |-> assemble_total(input_vars, output_vars, AsmCouplings, partial)]
        /\ UNCHANGED <<cache, discs, solver, last, prev, calls>>

AsmSpec == AsmInit /\ [][AssemblePartial \/ AssembleTotal]_vars

(***************************************************************************)
(* Claims about the cache (CacheSpec).  The relative-error metric is       *)
(* restated here on the integer inputs CacheSpec draws.                    *)
(***************************************************************************)
\* |s - q| / (1 + |q|) < tol and = tol, for integers s (stored), q (query).
MetricBelow(s, q, tol) == Abs(s - q) * tol[2] < tol[1] * (1 + Abs(q))
MetricAt(s, q, tol) == Abs(s - q) * tol[2] = tol[1] * (1 + Abs(q))

IntOf(values_dict, n) == values_dict[n][1][1]

\* the query is within tolerance of the stored inputs, for every variable
Within(stored, query, tol) ==
    \A n \in {"x1", "x2"} : MetricBelow(IntOf(stored, n), IntOf(query, n), tol)

\* neither input set matches the other, whichever is taken as the query
MutuallyDistinct(a, b, tol) == ~Within(a, b, tol) /\ ~Within(b, a, tol)

\* C3: a query matches a stored entry exactly when, for every input variable
\* at once, norm(stored - query) / (1 + norm(query)) is strictly below the
\* tolerance; a metric equal to the tolerance is a miss.  With tolerance
\* 1e-6 and stored x = 1.0, the query 1.0 + 1e-7 hits and 1.1 misses.
C3_MatchIffAllBelowTol ==
    /\ last.op = "load" =>
          (last.ret.found <=>
             \E k \in 1..Len(cache.entries) :
                 Within(cache.entries[k].inputs, last.input_values, cache.tol))
    /\ \A k \in 1..Len(cache.entries), q \in FullInputs :
          (check_values_match(cache.input_vars, cache.entries[k].inputs, q, cache.tol) = "match")
              <=> Within(cache.entries[k].inputs, q, cache.tol)
    /\ LET xs == <<Variable("x", 1, <<>>, <<>>, FALSE)>>
           stored == [n \in {"x"} |-> <<I(1)>>]
           tol6 == <<1, 1000000>>
       IN  /\ check_values_match(xs, stored, [n \in {"x"} |-> <<Q(10000001, 10000000)>>], tol6) = "match"
           /\ check_values_match(xs, stored, [n \in {"x"} |-> <<Q(11, 10)>>], tol6) = "nomatch"

\* a lookup that missed although one variable matched exactly and the other
\* sat exactly on the tolerance
C3_Witness ==
    /\ last.op = "load"
    /\ ~last.ret.found
    /\ \E k \in 1..Len(cache.entries) :
          /\ IntOf(cache.entries[k].inputs, "x2") = IntOf(last.input_values, "x2")
          /\ MetricAt(IntOf(cache.entries[k].inputs, "x1"), IntOf(last.input_values, "x1"), cache.tol)

\* The add just made is answered by a lookup of its own inputs, which
\* returns what the add was given.
AddIsRetrievable ==
    LET r == load_entry(cache, last.input_values)
    IN  /\ r.found
        /\ last.output_values # None => r.outputs = last.output_values[1]
        /\ last.jac # None => r.jac = last.jac[1]

\* C4 as stated: under LATEST, after every add the cache holds exactly one
\* entry, the entry for the inputs of that add; after adding two distinct
\* input sets, the second of which did not match the first, only the second
\* is retrievable and a query for the first misses.
C4_Original ==
    (cache.policy = "LATEST" /\ last.op = "add") =>
        /\ Len(cache.entries) = 1
        /\ AddIsRetrievable
        /\ (prev.op = "add" /\ last.idx = 0 /\ prev.input_values # last.input_values) =>
              /\ cache.entries[1].inputs = last.input_values
              /\ ~load_entry(cache, prev.input_values).found

\* C4 amended: ... after adding two input sets neither of which matches the
\* other (whichever is the query), the second of which matched no stored
\* entry, the one entry is the second's and a query for the first misses.
C4_LatestKeepsOnlyLastAdd ==
    (cache.policy = "LATEST" /\ last.op = "add") =>
        /\ Len(cache.entries) = 1
        /\ AddIsRetrievable
        /\ (prev.op = "add" /\ last.idx = 0
              /\ MutuallyDistinct(prev.input_values, last.input_values, cache.tol)) =>
              /\ cache.entries[1].inputs = last.input_values
              /\ ~load_entry(cache, prev.input_values).found

C4_Witness ==
    /\ cache.policy = "LATEST"
    /\ prev.op = "add"
    /\ last.op = "add"
    /\ last.idx = 0
    /\ MutuallyDistinct(prev.input_values, last.input_values, cache.tol)
    /\ Len(cache.entries) = 1

\* what an add leaves in the entry it wrote: the given field replaced, the
\* other field as it was
GivenOutputs(call) ==
    IF call.output_values # None THEN call.output_values[1]
    ELSE IF call.pre_entry # None THEN call.pre_entry[1].outputs ELSE EmptyDict
GivenJac(call) ==
    IF call.jac # None THEN call.jac[1]
    ELSE IF call.pre_entry # None THEN call.pre_entry[1].jac ELSE EmptyDict

\* an add that matched a stored entry wrote into that entry and left the
\* number of entries alone
MergeKeepsCount ==
    (last.op = "add" /\ last.idx # 0) =>
        /\ Len(cache.entries) = last.pre_len
        /\ cache.entries[last.idx].inputs = last.pre_entry[1].inputs
        /\ cache.entries[last.idx].outputs = GivenOutputs(last)
        /\ cache.entries[last.idx].jac = GivenJac(last)

BothRetrievable ==
    LET ra == load_entry(cache, prev.input_values)
        rb == load_entry(cache, last.input_values)
    IN  /\ Len(cache.entries) = prev.pre_len + 2
        /\ ra.found /\ ra.idx = prev.pre_len + 1
        /\ ra.outputs = GivenOutputs(prev) /\ ra.jac = GivenJac(prev)
        /\ rb.found /\ rb.idx = prev.pre_len + 2
        /\ rb.outputs = GivenOutputs(last) /\ rb.jac = GivenJac(last)

\* C5 as stated: under FULL, after adding two distinct input sets that each
\* matched no stored entry, both entries remain and each is retrievable by
\* its own inputs with its own outputs; an add whose inputs match a stored
\* entry merges into it and does not change the number of entries.
C5_Original ==
    cache.policy = "FULL" =>
        /\ MergeKeepsCount
        /\ (prev.op = "add" /\ last.op = "add" /\ prev.idx = 0 /\ last.idx = 0) => BothRetrievable

\* C5 amended: ... two input sets that each matched no stored entry and
\* neither of which matches the other, whichever is taken as the query ...
C5_FullKeepsBoth ==
    cache.policy = "FULL" =>
        /\ MergeKeepsCount
        /\ (prev.op = "add" /\ last.op = "add" /\ prev.idx = 0 /\ last.idx = 0
              /\ MutuallyDistinct(prev.input_values, last.input_values, cache.tol)) => BothRetrievable

\* two new entries after an earlier one, and then the case of a merge
C5_Witness ==
    /\ cache.policy = "FULL"
    /\ prev.op = "add" /\ last.op = "add" /\ prev.idx = 0 /\ last.idx = 0
    /\ MutuallyDistinct(prev.input_values, last.input_values, cache.tol)
    /\ Len(cache.entries) = 3
    /\ cache.entries[1].outputs # EmptyDict

(***************************************************************************)
(* Claims about the discipline (DiscSpec).                                 *)
(***************************************************************************)
\* the last two calls were evals, and the first of them returned
SuccessiveEvals == prev.op = "eval" /\ last.op = "eval" /\ prev.raised = "none"

\* the query is within the cache tolerance of the stored inputs
InTol(stored, query) ==
    check_values_match(discs[1].input_vars, stored, query, discs[1].cache[1].tol) = "match"

\* the second eval returned what the first returned and did not count
SecondEvalHit ==
    /\ last.raised = "none"
    /\ last.ret = prev.ret
    /\ discs[1].n_eval = last.pre_n_eval

\* C1 as stated: evaluate(x) then evaluate(x') with x' identical to x or
\* within the cache tolerance of x (here: whichever of the two is taken as
\* the query) returns the outputs of the first call and leaves n_eval where
\* the first call left it.
C1_Original ==
    (/\ SuccessiveEvals
     /\ \/ last.inputs = prev.inputs
        \/ InTol(prev.inputs, last.inputs) /\ InTol(last.inputs, prev.inputs))
    => SecondEvalHit

\* C1: evaluate(x) then evaluate(x') returns the outputs of the first call
\* and leaves n_eval where the first call left it when x' is identical to
\* x, or when the first call missed the cache (and so stored x) and x' as
\* the query is within the cache tolerance of x as the stored value.
C1_CacheRoundTrip ==
    (/\ SuccessiveEvals
     /\ \/ last.inputs = prev.inputs
        \/ ~prev.entry_exists /\ InTol(prev.inputs, last.inputs))
    => SecondEvalHit

\* a miss that stored x, then a different x' within tolerance of x served
\* from the cache
C1_Witness ==
    /\ SuccessiveEvals
    /\ ~prev.entry_exists
    /\ last.inputs # prev.inputs
    /\ InTol(prev.inputs, last.inputs)
    /\ last.entry_exists
    /\ last.ret = prev.ret
    /\ discs[1].n_eval = 1

ValidInputs(c) == verify_dict_1d(discs[1].input_vars, c.inputs) = "ok"

\* C6 as stated: an eval for which a declared input has no value, or a
\* value of the wrong size, raises and returns no outputs.
C6_InvalidInputFails ==
    last.op = "eval" /\ ~ValidInputs(last) => last.raised # "none" /\ last.ret = None

(***************************************************************************)
(* Claims about the solver (SolverSpec).                                   *)
(***************************************************************************)
\* solve returned at the cap without having converged
StoppedAtCap ==
    /\ solver.pc = "done"
    /\ solver.status = "NOT_CONVERGED"
    /\ solver.iter = solver.n_iter_max

\* iter never exceeds n_iter_max, and a solve that stops at the cap without
\* having converged returns the current estimate and raises nothing
CapIsRespected ==
    /\ solver.iter <= solver.n_iter_max
    /\ StoppedAtCap => solver.raised = "none" /\ solver.ret = Some(solver.values)
    /\ solver.pc = "done" /\ solver.raised = "none" /\ solver.status = "NOT_CONVERGED"
          => solver.iter = solver.n_iter_max

\* a step of solve taken at the head of the loop leaves solve or counts one
\* more iteration, and a step taken before the loop starts the count at 0
LoopStepAdvances ==
    /\ solver.pc = "loop" =>
          \/ solver'.pc = "done" /\ solver'.iter \in {solver.iter, solver.iter + 1}
          \/ solver'.pc = "loop" /\ solver'.iter = solver.iter + 1
    /\ solver.pc = "idle" => solver'.pc \in {"loop", "done"} /\ solver'.iter = 0

\* C7: solve always terminates: every pass through the loop counts one more
\* iteration and iter never exceeds n_iter_max, so at most n_iter_max
\* single iterations run; and when the residual is still above the
\* tolerance at the cap solve returns the current coupling estimate with
\* status NOT_CONVERGED and does not raise.
C7_SolveTerminates == [](CapIsRespected) /\ [][LoopStepAdvances]_vars

\* a solve that ran all its iterations and returned unconverged
C7_Witness ==
    /\ StoppedAtCap
    /\ solver.iter >= 1
    /\ Len(solver.history) = solver.iter + 1
    /\ solver.raised = "none"
    /\ solver.ret = Some(solver.values)

\* each coupling value is closer to the fixed point y1 = 1, y2 = 2 than 1/2
NearFixedPoint(values) ==
    /\ RLeq(RAbs(RSub(values["y1"][1], I(1))), Q(1, 2))
    /\ RLeq(RAbs(RSub(values["y2"][1], I(2))), Q(1, 2))

ExactFixedPoint(values) == values = [n \in {"y1", "y2"} |-> IF n = "y1" THEN <<I(1)>> ELSE <<I(2)>>]

\* solve has ended, with the scaled cap, from an estimate given for both
\* coupling variables
SolvedFromEstimate ==
    /\ discs[2].kind = "Linear2"
    /\ solver.pc = "done"
    /\ solver.n_iter_max = NIterMax
    /\ DOMAIN solver.given = {"y1", "y2"}

\* C8 as stated, at the scale of the model: from every initial estimate
\* Gauss-Seidel and Jacobi end CONVERGED near the fixed point y1 = 1,
\* y2 = 2, and Newton-Raphson ends CONVERGED exactly at it after at most 3
\* iterations.
C8_ConvergesFromEveryEstimate ==
    SolvedFromEstimate =>
        /\ solver.raised = "none"
        /\ solver.status = "CONVERGED"
        /\ NearFixedPoint(solver.ret[1])
        /\ solver.type = "NewtonRaphson" => solver.iter <= 3 /\ ExactFixedPoint(solver.ret[1])

(***************************************************************************)
(* Claims about the assembler (AsmSpec).                                   *)
(***************************************************************************)
TotalAssembled == asm.op = "assemble_total"

\* The matrices assemble_total built from the arguments of the call
Assembled ==
    assemble_partials(asm.input_vars, asm.output_vars, asm.coupling_vars, asm.partial)

\* dF/dX - dF/dY * (dR/dY)^-1 * dR/dX
TotalDerivative(m) == MSub(m.dfdx, MMul(m.dfdy, MMul(Inverse(m.dRdy), m.dRdx)))

\* Both computations succeed with the matrix total, which the call returned
\* as blocks
BothGive(adjoint, direct, total) ==
    /\ adjoint.finite /\ adjoint.raised = "none" /\ adjoint.total = total
    /\ direct.finite /\ direct.raised = "none" /\ direct.total = total
    /\ asm.r.raised = "none"
    /\ asm.r.total = array_to_dict_2d(asm.input_vars, asm.output_vars, total)

PathsAgreeOn(m) ==
    Det(m.dRdy) # I(0) =>
        BothGive(total_adjoint(m.dfdx, m.dfdy, m.dRdy, m.dRdx),
                 total_direct(m.dfdx, m.dfdy, m.dRdy, m.dRdx),
                 TotalDerivative(m))

AdjointOnAsymmetric(m) ==
    /\ Det(m.dRdy) # I(0)
    /\ m.dRdy # MTranspose(m.dRdy)
    /\ TotalDerivative(m) # m.dfdx
    /\ asm.r.total = array_to_dict_2d(asm.input_vars, asm.output_vars,
                                      total_adjoint(m.dfdx, m.dfdy, m.dRdy, m.dRdx).total)

RECURSIVE TotalSize(_)
TotalSize(vs) == IF vs = <<>> THEN 0 ELSE Head(vs).size + TotalSize(Tail(vs))

C11_AdjointIffLargerInputs ==
    TotalAssembled =>
        (asm.r.path = "adjoint" <=> TotalSize(asm.input_vars) > TotalSize(asm.output_vars))

\* the k-th entry's stored inputs are matched by the query
Matches(k, query) ==
    check_values_match(cache.input_vars, cache.entries[k].inputs, query, cache.tol) = "match"

\* C18 as stated: under FULL no two retained entries have tolerance-
\* equivalent inputs, whichever of the two is taken as the query.
C18_Original ==
    cache.policy = "FULL" =>
        \A i, j \in 1..Len(cache.entries) : i # j => ~Matches(i, cache.entries[j].inputs)

\* C18 amended: under FULL, for every pair of retained entries the inputs of
\* the later inserted one, taken as the query, do not match the stored
\* inputs of the earlier one.
C18_LaterEntryMissedEarlier ==
    cache.policy = "FULL" =>
        \A i, j \in 1..Len(cache.entries) : i < j => ~Matches(i, cache.entries[j].inputs)

\* two retained entries, the earlier one's inputs matching the later one's
\* when taken as the query
C18_Witness ==
    /\ cache.policy = "FULL"
    /\ last.op = "add"
    /\ \E i, j \in 1..Len(cache.entries) : i < j /\ Matches(j, cache.entries[i].inputs)

\* the entries matched by the query of the last call
Matching == {k \in 1..Len(cache.entries) : Matches(k, last.input_values)}

\* C19: a lookup returns the first match scanning from the most recently
\* inserted entry to the oldest: under FULL, when several entries match the
\* query, the outputs and partials returned are those of the most recently
\* inserted matching entry.
C19_NewestMatchWins ==
    (last.op = "load" /\ Matching # {}) =>
        /\ last.ret.found
        /\ \A k \in Matching : k <= last.ret.idx
        /\ last.ret.idx \in Matching
        /\ last.ret.outputs = cache.entries[last.ret.idx].outputs
        /\ last.ret.jac = cache.entries[last.ret.idx].jac

\* a lookup under FULL matched by two entries holding different outputs
C19_Witness ==
    /\ cache.policy = "FULL"
    /\ last.op = "load"
    /\ \E i, j \in Matching :
          /\ i < j
          /\ last.ret.idx = j
          /\ cache.entries[i].outputs # cache.entries[j].outputs
          /\ last.ret.outputs = cache.entries[j].outputs

(***************************************************************************)
(* Claims about variables and coupling detection (GraphSpec).              *)
(***************************************************************************)
\* the variables declared by the disciplines, as inputs and as outputs
DeclaredVars(field) ==
    UNION {{discs[k][field][i] : i \in 1..Len(discs[k][field])} : k \in 1..Len(discs)}

\* C12: two Variable objects are equal exactly when their names are equal,
\* whatever their size, bounds and keep_feasible flag, so the membership
\* tests of get_couplings treat same-named instances as one variable: an
\* output whose name is the name of a declared input is a coupling variable.
C12_EqualByNameOnly ==
    /\ \A u \in DeclaredVars("output_vars"), v \in DeclaredVars("input_vars") :
          (u = v) <=> (u.name = v.name)
    /\ solver # Idle =>
          \A u \in DeclaredVars("output_vars") :
              u.name \in Names(var_list(discs, 1, "input_vars"))
                  => u.name \in Names(solver.coupling_vars)

\* the outputs from the k-th on whose name is the name of a declared input,
\* each name once, in order of first occurrence
RECURSIVE NamedCouplings(_, _, _, _)
NamedCouplings(outs, in_names, k, acc) ==
    IF k > Len(outs) THEN acc
    ELSE NamedCouplings(outs, in_names, k + 1,
             IF outs[k].name \in in_names /\ outs[k].name \notin Names(acc)
             THEN Append(acc, outs[k]) ELSE acc)

\* C16: coupling_vars is exactly the output variables whose name is also the
\* name of an input variable of some discipline of the list, each name once,
\* ordered by first occurrence in the concatenated output lists.
C16_CouplingsByNameInOrder ==
    solver # Idle =>
        solver.coupling_vars =
            NamedCouplings(var_list(discs, 1, "output_vars"),
                           Names(var_list(discs, 1, "input_vars")), 1, <<>>)

\* C17: every coupling variable is an output of one discipline and an input
\* of a different discipline.
C17_CouplesDifferentDisciplines ==
    solver # Idle =>
        \A c \in 1..Len(solver.coupling_vars) :
            \E i, j \in 1..Len(discs) :
                /\ i # j
                /\ solver.coupling_vars[c].name \in Names(discs[i].output_vars)
                /\ solver.coupling_vars[c].name \in Names(discs[j].input_vars)

(***************************************************************************)
(* More claims about a discipline (DiscSpec).                              *)
(***************************************************************************)
\* the last call ran the parabola at x1 = 50, x2 = 50
ParabolaAt50(op) ==
    /\ last.op = op
    /\ discs[1].kind = "Parabola"
    /\ last.inputs = GivenDict(<<I(50)>>, <<I(50)>>)

\* C13: the parabola y = x1^2 + x2^2 evaluated at x1 = 50, x2 = 50 returns
\* y = 5000, and differentiated there returns dy/dx1 = 100 and dy/dx2 = 100,
\* each as a 1x1 block.
C13_ParabolaExample ==
    /\ ParabolaAt50("eval") =>
          last.raised = "none" /\ last.ret = Some([n \in {"y"} |-> <<I(5000)>>])
    /\ ParabolaAt50("differentiate") =>
          /\ last.raised = "none"
          /\ last.ret = Some([o \in {"y"} |-> [n \in {"x1", "x2"} |-> <<<<I(100)>>>>]])

\* the example's sequence: evaluated at the point, then differentiated there
C13_Witness ==
    /\ ParabolaAt50("differentiate")
    /\ prev.op = "eval" /\ prev.inputs = last.inputs
    /\ prev.ret = Some([n \in {"y"} |-> <<I(5000)>>])
    /\ last.ret[1]["y"]["x1"] = <<<<I(100)>>>>

\* the default inputs before the call overridden by what the caller gave
UsedInputs(call) ==
    [n \in DOMAIN call.input_values \cup DOMAIN call.pre_default_inputs |->
        IF n \in DOMAIN call.input_values THEN call.input_values[n]
        ELSE call.pre_default_inputs[n]]

EvalReturned(call) == call.op = "eval" /\ call.raised = "none"

EvalLoggedFailure == last.op = "eval" /\ discs[1].logged > last.pre_logged

\* C27: an evaluate call whose input or output verification fails leaves
\* default_inputs and the cache as they were, so the cache holds only
\* entries of the declared sizes and no later evaluate is served incomplete
\* or mis-sized outputs from it.
C27_FailedEvalLeavesStateAlone ==
    /\ EvalLoggedFailure => discs[1].default_inputs = last.pre_default_inputs
    /\ \A k \in 1..Len(discs[1].cache[1].entries) :
          /\ verify_dict_1d(discs[1].input_vars, discs[1].cache[1].entries[k].inputs) = "ok"
          /\ discs[1].cache[1].entries[k].outputs # EmptyDict =>
                verify_dict_1d(discs[1].output_vars, discs[1].cache[1].entries[k].outputs) = "ok"
    /\ (EvalReturned(last) /\ last.entry_exists) =>
          verify_dict_1d(discs[1].output_vars, last.ret[1]) = "ok"

(***************************************************************************)
(* More claims about the cache (CacheSpec).                                *)
(***************************************************************************)
\* C14: constructing a cache with a policy that is not a CachePolicy member
\* (the plain string "full") fails at construction time: no cache object
\* with such a policy exists, and none stores nothing on an add.
C14_InvalidPolicyFailsAtConstruction ==
    /\ cache.policy \in Policies
    /\ last.op = "add" => cache.entries # <<>>

(***************************************************************************)
(* More claims about the solver (SolverSpec).                              *)
(***************************************************************************)
\* a Newton-Raphson solve of the singular coupling that has entered its
\* first iteration, in which dR/dY was assembled and handed to spsolve
SingularNewton ==
    /\ solver.type = "NewtonRaphson"
    /\ discs[2].kind = "Linear3"
    /\ solver.iter >= 1

\* C15: in a Newton-Raphson solve, when the assembled dR/dY is singular the
\* solve fails: the failure reaches the caller in that iteration, no further
\* iteration is run, and no coupling estimate is returned.
C15_SingularJacobianFails ==
    SingularNewton =>
        /\ solver.pc = "done"
        /\ solver.raised # "none"
        /\ solver.ret = None
        /\ solver.iter = 1

(***************************************************************************)
(* Claims about differentiate and the approximation sweeps (ApproxSpec).   *)
(***************************************************************************)
\* the step is a call of differentiate
DifferentiateStep == last'.op = "differentiate" /\ calls' = calls + 1

\* evaluate called with the inputs of that call on the discipline before it
ForcedEval == eval(discs[1], last'.input_values)

\* a valid point given in full
FullPoint(iv) == DOMAIN iv = {"x1", "x2"} /\ Len(iv["x1"]) = 1 /\ Len(iv["x2"]) = 1

EvaluatesFirst ==
    DifferentiateStep =>
        /\ ForcedEval.raised # "none" =>
              last'.raised = ForcedEval.raised /\ discs'[1] = ForcedEval.d
        /\ (ForcedEval.raised = "none" /\ last'.raised = "none") =>
              /\ get_input_values(discs'[1]) = get_input_values(ForcedEval.d)
              /\ get_output_values(discs'[1]) = ForcedEval.ret[1]
              /\ discs'[1].default_inputs = ForcedEval.d.default_inputs
              /\ discs'[1].n_eval >= ForcedEval.d.n_eval
              /\ discs[1].diff_method = "ANALYTIC" => discs'[1].n_eval = ForcedEval.d.n_eval
              /\ (discs[1].diff_method = "ANALYTIC" /\ ~last'.entry_exists
                    /\ FullPoint(last'.input_values)) =>
                    last'.ret[1]["y"] = [n \in {"x1", "x2"} |->
                                           <<<<RMul(I(2), last'.input_values[n][1])>>>>]
        /\ (calls = 0 /\ discs[1].diff_method = "ANALYTIC" /\ FullPoint(last'.input_values)) =>
              /\ last'.raised = "none"
              /\ discs'[1].n_eval = 1 /\ discs'[1].n_diff = 1

\* C21: differentiate(x) runs evaluate(x) before any partials lookup or
\* computation (the policy is ALWAYS, or the method is not ANALYTIC): when
\* evaluate(x) raises, differentiate ends there; otherwise the working
\* values after the call hold x and the outputs evaluate(x) gives, the
\* default inputs are those evaluate(x) leaves, and with the analytic
\* method n_eval is what evaluate(x) leaves; one differentiate(x) on a
\* fresh analytic discipline leaves n_eval = 1 and n_diff = 1.
C21_DifferentiateEvaluatesFirst == [][EvaluatesFirst]_vars

\* one differentiate at a valid point on the fresh analytic discipline
C21_Witness ==
    /\ calls = 1
    /\ last.op = "differentiate" /\ last.raised = "none" /\ ~last.entry_exists
    /\ FullPoint(last.input_values)
    /\ discs[1].diff_method = "ANALYTIC"
    /\ discs[1].n_eval = 1 /\ discs[1].n_diff = 1
    /\ get_input_values(discs[1]) = last.input_values
    /\ "y" \in DOMAIN discs[1].values

\* the step is a differentiate that approximated the jacobian and returned
SweepReturned ==
    /\ DifferentiateStep
    /\ discs[1].diff_method # "ANALYTIC"
    /\ last'.raised = "none"
    /\ ~last'.entry_exists

SweepLeavesStateAlone ==
    SweepReturned =>
        /\ discs'[1].default_inputs = ForcedEval.d.default_inputs
        /\ discs'[1].cache = add_cache_entry_jac([ForcedEval.d EXCEPT !.jac = discs'[1].jac]).d.cache
        /\ discs'[1].values = ForcedEval.d.values
        /\ discs'[1].dtype = "FLOAT"
        /\ ~discs'[1].approximating_jac

\* C22: the perturbed evaluations of a sweep leave default_inputs and the
\* cache unchanged (after differentiate(x) they are what evaluate(x) left,
\* the cache with the new partials added to the entry of x), and when
\* differentiate(x) returns the working values are x and the outputs at x,
\* the dtype is the real float type and the discipline is not approximating.
C22_SweepLeavesStateAlone == [][SweepLeavesStateAlone]_vars

\* a complex-step sweep at (1, 1) in which every perturbed evaluation
\* invoked the user function, returning the partials 2 and 2
C22_Witness ==
    /\ last.op = "differentiate" /\ last.raised = "none" /\ ~last.entry_exists
    /\ discs[1].diff_method = "COMPLEX_STEP"
    /\ discs[1].user_evals >= last.pre_user_evals + 2
    /\ discs[1].sweep_hits = 0
    /\ last.ret = Some([o \in {"y"} |-> [n \in {"x1", "x2"} |-> <<<<I(2)>>>>]])
    /\ get_input_values(discs[1]) = [n \in {"x1", "x2"} |-> <<I(1)>>]
    /\ get_output_values(discs[1]) = [n \in {"y"} |-> <<I(2)>>]
    /\ discs[1].default_inputs = [n \in {"x1", "x2"} |-> <<I(1)>>]
    /\ discs[1].dtype = "FLOAT"

\* C29: during the sweep of differentiate(x) every perturbed evaluation
\* invokes the user evaluation function and none is answered from the
\* cache, for every cache tolerance and step eps.
C29_SweepNeverServedFromCache == discs[1].sweep_hits = 0

\* differentiate raised because the user evaluation function raised in a
\* perturbed evaluation of its sweep (the evaluation before the sweep returned)
UserEvalRaisedIn(call) ==
    /\ call.op = "differentiate" /\ call.raised # "none"
    /\ call.computing_started /\ call.user_eval_raised

\* C30: when the user evaluation function raises during a sweep, then after
\* the exception has left differentiate the discipline is not approximating
\* and its dtype is the real float type, and the next evaluate updates
\* default_inputs and stores its outputs in the cache.
C30_SweepFailureLeavesNoMode ==
    /\ UserEvalRaisedIn(last) =>
          ~discs[1].approximating_jac /\ discs[1].dtype = "FLOAT"
    /\ (UserEvalRaisedIn(prev) /\ EvalReturned(last)) =>
          /\ discs[1].default_inputs = UsedInputs(last)
          /\ load_entry(discs[1].cache[1], discs[1].values).found
          /\ load_entry(discs[1].cache[1], discs[1].values).outputs = last.ret[1]

(***************************************************************************)
(* More claims about the assembler (AsmSpec).                              *)
(***************************************************************************)
PartialAssembled == asm.op = "assemble_partial"

\* the element (r, c) of the block of the k-th output and the j-th input
BlockElement(k, j, r, c) ==
    asm.r.matrix[TotalSize(SubSeq(asm.output_vars, 1, k - 1)) + r]
                [TotalSize(SubSeq(asm.input_vars, 1, j - 1)) + c]

\* the element the claim gives to that position
ClaimedElement(out, in, r, c) ==
    IF out = in THEN (IF r = c THEN I(1) ELSE I(0))
    ELSE IF out \in DOMAIN asm.partial /\ in \in DOMAIN asm.partial[out]
    THEN RMul(IF asm.as_residual THEN I(-1) ELSE I(1), asm.partial[out][in][r][c])
    ELSE I(0)

\* C25: assemble_partial returns a matrix of shape (sum of output sizes, sum
\* of input sizes) laid out by variable order, whose block for an (output,
\* input) pair is the identity when the names are equal, the supplied
\* partial block when they differ and a partial is present (negated under
\* as_residual), and zero when none is present.
C25_PartialLayout ==
    PartialAssembled =>
        /\ asm.r.raised = "none"
        /\ Len(asm.r.matrix) = TotalSize(asm.output_vars)
        /\ \A i \in 1..Len(asm.r.matrix) : Len(asm.r.matrix[i]) = TotalSize(asm.input_vars)
        /\ \A k \in 1..Len(asm.output_vars), j \in 1..Len(asm.input_vars) :
              \A r \in 1..asm.output_vars[k].size, c \in 1..asm.input_vars[j].size :
                  BlockElement(k, j, r, c) =
                      ClaimedElement(asm.output_vars[k].name, asm.input_vars[j].name, r, c)

\* solve has returned to its caller
SolveReturned == solver.pc = "done" /\ solver.raised = "none"

\* C26: when solve returns, the residual history has iter + 1 entries (the
\* history of an earlier call is gone), status is CONVERGED exactly when
\* the last recorded metric is at most the tolerance, and NOT_CONVERGED
\* implies that iter equals max_iterations.
C26_HistoryAndStatus ==
    SolveReturned =>
        /\ Len(solver.history) = solver.iter + 1
        /\ solver.status = "CONVERGED" <=> RLeq(solver.history[Len(solver.history)], solver.tol)
        /\ solver.status = "NOT_CONVERGED" => solver.iter = solver.n_iter_max

\* the second solve on a solver has returned after at least one iteration
C26_Witness ==
    /\ SolveReturned
    /\ calls = 2
    /\ solver.iter >= 1
    /\ Len(solver.history) = solver.iter + 1
    /\ solver.status = "CONVERGED"

\* C28: whenever solve returns with status CONVERGED, at least one iteration
\* was run in that call, for every initial estimate.
C28_ConvergedAfterAnIteration ==
    (SolveReturned /\ solver.status = "CONVERGED") => solver.iter >= 1

\* a step that ran one iteration of the given strategy to its end
IterationStep(type) ==
    /\ solver.type = type
    /\ solver.pc = "loop"
    /\ solver'.iter = solver.iter + 1
    /\ solver'.raised = "none"

CouplingNames == Names(solver.coupling_vars)

\* the discipline that produces the variable
Producer(n) == CHOOSE k \in 1..Len(discs) : n \in Names(discs[k].output_vars)

ReverseOf(ds) == [k \in 1..Len(ds) |-> ds[Len(ds) + 1 - k]]

JacobiIteration ==
    IterationStep("NonlinearJacobi") =>
        /\ \A k \in 1..Len(discs) :
              \A n \in Names(discs[k].input_vars) \cap CouplingNames :
                  discs'[k].values[n] = solver.values[n]
        /\ solver'.values = [n \in CouplingNames |-> discs'[Producer(n)].values[n]]
        /\ solver'.values = iteration(solver, ReverseOf(discs)).solver.values

\* C23: in a Nonlinear Jacobi iteration every discipline receives the
\* previous iteration's value for each coupling variable among its inputs,
\* the new estimate is the outputs of those evaluations, and it is the same
\* when the disciplines are listed in the opposite order.
C23_JacobiUsesPreviousValues == [][JacobiIteration]_vars

\* after a Jacobi iteration the second discipline holds the previous y2,
\* which differs from the y2 the first discipline has just produced
C23_Witness ==
    /\ solver.type = "NonlinearJacobi"
    /\ solver.pc = "loop" /\ solver.iter >= 2
    /\ discs[2].values["y2"] = solver.old_values["y2"]
    /\ discs[2].values["y2"] # discs[1].values["y2"]

\* the disciplines before position k that produce the variable
ProducersBefore(k, n) == {j \in 1..(k - 1) : n \in Names(discs[j].output_vars)}

GaussSeidelIteration ==
    IterationStep("NonlinearGS") =>
        \A k \in 1..Len(discs) :
            \A n \in Names(discs[k].input_vars) :
                IF ProducersBefore(k, n) # {}
                THEN discs'[k].values[n] =
                        discs'[CHOOSE j \in ProducersBefore(k, n) :
                                   \A i \in ProducersBefore(k, n) : i <= j].values[n]
                ELSE n \in DOMAIN solver.values => discs'[k].values[n] = solver.values[n]

\* C24: in a Nonlinear Gauss-Seidel iteration the discipline at position i
\* receives for each input the value produced in the same iteration by a
\* discipline before i when there is one, and otherwise the previous
\* iteration's coupling value.
C24_GaussSeidelUsesFreshValues == [][GaussSeidelIteration]_vars

\* after a Gauss-Seidel iteration the second discipline holds the y2 the
\* first has just produced, which differs from the previous y2
C24_Witness ==
    /\ solver.type = "NonlinearGS"
    /\ solver.pc = "loop" /\ solver.iter >= 2
    /\ discs[1].values["y1"] = solver.old_values["y1"]
    /\ discs[2].values["y2"] = discs[1].values["y2"]
    /\ discs[2].values["y2"] # solver.old_values["y2"]

====
